---- MODULE Spec2Model ----
(***************************************************************************)
(* State-machine model of the ZenSpend server: the three tables of its     *)
(* SQLite store (transactions, categories, settings) and the routes that   *)
(* read and write them: the transaction routes of                          *)
(* server/src/routes/transactions.ts (list, get, single create, recurring  *)
(* create (the recurrence generator), single update, group update, single  *)
(* delete, group delete), the category routes, the settings routes, the    *)
(* bulk import and export of routes/migrate, and the MCP tool              *)
(* log_transaction, which posts to /transactions.                          *)
(*                                                                         *)
(* Representation.  A date string "YYYY-MM-DD" is the integer YYYYMMDD:    *)
(* for such fixed-width strings JavaScript's string comparison (used by    *)
(* the scope filters) is the integer order.  SQL NULL, JSON null and an    *)
(* absent optional property of a parsed body are the one value NULL where  *)
(* the code stores them (a column cannot hold undefined); a request body   *)
(* is a record that carries only the properties the caller sent.           *)
(* crypto.randomUUID() is the next value of the counter uuids (collisions  *)
(* of random UUIDs are not modelled).  The columns createdAt and updatedAt *)
(* are not modelled.                                                       *)
(***************************************************************************)
EXTENDS Integers, Sequences, FiniteSets, TLC

VARIABLES
    tz,            \* the server's local UTC offset in hours (fixed per run)
    transactions,  \* the transactions table, in rowid (insertion) order
    uuids,         \* how many UUIDs crypto.randomUUID() has handed out
    nreq,          \* number of requests handled so far
    req,           \* the request handled last
    resp,          \* the response to it
    before,        \* the transactions table as it was before that request
    categories,    \* the categories table, in rowid order
    settings,      \* the settings table: no row, or the row with id 1
    beforeCategories,  \* the categories table before the last request
    beforeSettings,    \* the settings table before the last request
    inflight,      \* the concurrent requests of the handler-level model
    call,          \* the client's last transaction mutation (hooks)
    cache,         \* the client's ['settings'] query: its data, and fetching
    mutations,     \* the client's settings mutations, in the order of mutate()
    agent,         \* the voice agent's session: resource refs and progress
    tools,         \* the voice agent's tool calls of one server message
    modal,         \* the settings modal: local categories and the calls of save
    stats          \* the dashboard's inputs: settings, and the month's transactions

vars == <<tz, transactions, uuids, nreq, req, resp, before,
          categories, settings, beforeCategories, beforeSettings, inflight,
          call, cache, mutations, agent, tools, modal, stats>>

\* The tables and the request log of the server.
serverVars == <<tz, transactions, uuids, nreq, req, resp, before,
                categories, settings, beforeCategories, beforeSettings>>

\* The state of the web client's components.
uiVars == <<cache, mutations, agent, tools, modal, stats>>

(***************************************************************************)
(* Bounds of the model.                                                    *)
(***************************************************************************)
MaxRequests == 3

\* The number of requests in flight together in the handler-level model.
MaxInflight == 3

\* The number of settings mutations the client starts in one run.
MaxMutations == 3

\* The number of times the voice agent's startSession is called in one run.
MaxSessions == 2

\* The number of categories added in the settings modal in one run.
MaxAdded == 2

\* The number of transactions in the list the dashboard is rendered on.
MaxListed == 2

(***************************************************************************)
(* Program constants.                                                      *)
(***************************************************************************)
MaxMonths == 24
DefaultMonths == 12

NULL == "NULL"

Types == {"expense", "income", "cc_payment"}

Uuid(n) == "u" \o ToString(n)

Has(r, f) == f \in DOMAIN r

(***************************************************************************)
(* Calendar and the JavaScript Date operations the generator uses.         *)
(***************************************************************************)
Year(s) == s \div 10000
Month(s) == (s \div 100) % 100
Day(s) == s % 100
DateString(y, m, d) == y * 10000 + m * 100 + d

IsLeap(y) == (y % 4 = 0 /\ y % 100 # 0) \/ y % 400 = 0

DaysInMonth(y, m) ==
    IF m = 2 THEN (IF IsLeap(y) THEN 29 ELSE 28)
    ELSE IF m \in {4, 6, 9, 11} THEN 30 ELSE 31

IsCalendarDate(s) ==
    /\ Month(s) \in 1..12
    /\ Day(s) \in 1..DaysInMonth(Year(s), Month(s))

\* new Date(year, monthIndex, day) in local time, as its local fields
\* [y, m (0-based), d]: a monthIndex past 11 carries into the year, day 0 is
\* the last day of the month before, a day past the month's end carries into
\* the next month (days here are 0..31, so one carry is enough).
\* Years 0..99, which this constructor maps to 1900..1999, are outside the
\* model's dates.
NewDate(year, monthIndex, day) ==
    LET y == year + (monthIndex \div 12)
        m == monthIndex % 12
        py == IF m = 0 THEN y - 1 ELSE y
        pm == IF m = 0 THEN 11 ELSE m - 1
        ny == IF m = 11 THEN y + 1 ELSE y
        nm == IF m = 11 THEN 0 ELSE m + 1
        dim == DaysInMonth(y, m + 1)
    IN  IF day = 0 THEN [ok |-> TRUE, y |-> py, m |-> pm, d |-> DaysInMonth(py, pm + 1)]
        ELSE IF day > dim THEN [ok |-> TRUE, y |-> ny, m |-> nm, d |-> day - dim]
        ELSE [ok |-> TRUE, y |-> y, m |-> m, d |-> day]

InvalidDate == [ok |-> FALSE, y |-> 0, m |-> 0, d |-> 0]

\* new Date(s + 'T00:00:00'): a date-time string without offset is local
\* time.  V8 accepts month 1..12 and day 1..31 and lets a day past the end
\* of the month carry over (2025-02-30 is March 2nd); anything else is an
\* Invalid Date.
ParseLocalDate(s) ==
    IF Month(s) \in 1..12 /\ Day(s) \in 1..31
    THEN NewDate(Year(s), Month(s) - 1, Day(s))
    ELSE InvalidDate

\* date.toISOString().split('T')[0] of a local-midnight Date: the calendar
\* date of that instant in UTC.  Local midnight is 0 - tz hours into the
\* local day on the UTC clock, so the UTC day is the local day plus
\* floor((0 - tz) / 24): the day before when the server is ahead of UTC.
ToISODate(date) ==
    LET shift == (0 - tz) \div 24
        utc == NewDate(date.y, date.m, date.d + shift)
    IN  DateString(utc.y, utc.m + 1, utc.d)

(***************************************************************************)
(* Request validation (zod 3 schemas).                                     *)
(***************************************************************************)
\* /^\d{4}-\d{2}-\d{2}$/ : eight digits in the YYYY-MM-DD layout.
DateRegex(s) == s \in 0..99999999

\* transactionSchema.safeParse(body).success
TransactionSchemaOk(b) ==
    /\ Has(b, "date") /\ DateRegex(b.date)
    /\ Has(b, "amount") /\ b.amount > 0
    /\ Has(b, "description") /\ b.description # ""
    /\ Has(b, "type") /\ b.type \in Types

\* transactionSchema.safeParse(body).data : isFixed defaults to false.
TransactionSchemaData(b) ==
    IF Has(b, "isFixed") THEN b ELSE b @@ [isFixed |-> FALSE]

\* transactionUpdateSchema = transactionSchema.partial(): every property is
\* optional, a property that is present is validated as before, and the
\* default of isFixed is not applied to an absent property (zod 3 wraps the
\* defaulted schema in an optional, which answers undefined for undefined).
TransactionUpdateSchemaOk(p) ==
    /\ Has(p, "date") => DateRegex(p.date)
    /\ Has(p, "amount") => p.amount > 0
    /\ Has(p, "description") => p.description # ""
    /\ Has(p, "type") => p.type \in Types

\* z.object(...).safeParse(body).data : properties the schema does not name
\* are stripped.
Strip(b, keys) == [f \in (DOMAIN b) \cap keys |-> b[f]]

TransactionKeys ==
    {"date", "amount", "categoryId", "description", "type", "isFixed", "groupId"}

\* Mutant of TransactionUpdateSchemaData: the body is used as it was sent.
TransactionUpdateSchemaDataUnstripped(p) == p

\* transactionUpdateSchema.safeParse(body).data
TransactionUpdateSchemaData(p) == Strip(p, TransactionKeys)

\* The JSON number sent as months is months + monthsTenths / 10: a body
\* carries monthsTenths only when the number has a fractional part.
MonthsTenths(b) == IF Has(b, "monthsTenths") THEN b.monthsTenths ELSE 0

\* Mutant of RecurringRequestSchemaOk: months is any number.
RecurringRequestSchemaOkAnyMonths(b) ==
    Has(b, "base") /\ TransactionSchemaOk(b.base)

\* recurringRequestSchema: months is z.number().int().min(1).max(24), 12
\* when absent.
RecurringRequestSchemaOk(b) ==
    /\ Has(b, "base") /\ TransactionSchemaOk(b.base)
    /\ Has(b, "months") => (MonthsTenths(b) = 0 /\ b.months \in 1..MaxMonths)

RecurringRequestMonths(b) ==
    IF Has(b, "months") THEN b.months ELSE DefaultMonths

\* groupUpdateSchema
GroupUpdateSchemaOk(b) ==
    /\ Has(b, "updates") /\ TransactionUpdateSchemaOk(b.updates)
    /\ Has(b, "scope") /\ b.scope \in {"all", "future"}
    /\ Has(b, "fromDate") => DateRegex(b.fromDate)

(***************************************************************************)
(* Responses.                                                              *)
(***************************************************************************)
Ok(status, data) ==
    [status |-> status, envelope |-> TRUE, success |-> TRUE, code |-> "", data |-> data]

Err(status, code) ==
    [status |-> status, envelope |-> TRUE, success |-> FALSE, code |-> code, data |-> <<>>]

\* A handler that throws: Fastify's default error handler answers 500 with
\* {statusCode, error, message}.
Thrown ==
    [status |-> 500, envelope |-> FALSE, success |-> FALSE,
     code |-> "Internal Server Error", data |-> <<>>]

(***************************************************************************)
(* Rows.                                                                   *)
(***************************************************************************)
\* x.f || null : undefined, null and the empty string become null.
OrNull(r, f) ==
    IF Has(r, f) /\ r[f] # "" /\ r[f] # NULL THEN r[f] ELSE NULL

\* POST /transactions: { id, ...data, categoryId: data.categoryId || null,
\*                       groupId: data.groupId || null }
NewTransaction(id, data) ==
    [id |-> id, date |-> data.date, amount |-> data.amount,
     categoryId |-> OrNull(data, "categoryId"),
     description |-> data.description, type |-> data.type,
     isFixed |-> data.isFixed, groupId |-> OrNull(data, "groupId")]

\* db.update(...).set({ ...data }): the properties present in data replace
\* the columns of the same name (the schemas carry no id, so id stays).
SetColumns(row, data) ==
    [f \in DOMAIN row |-> IF Has(data, f) THEN data[f] ELSE row[f]]

ById(store, id) == {k \in 1..Len(store) : store[k].id = id}

ByGroup(store, groupId) ==
    LET InGroup(t) == t.groupId = groupId
    IN  SelectSeq(store, InGroup)

Ids(rows) == {rows[k].id : k \in 1..Len(rows)}

\* db.delete(...).where(id in ids)
Without(store, ids) ==
    LET Kept(t) == t.id \notin ids
    IN  SelectSeq(store, Kept)

(***************************************************************************)
(* The recurrence generator (POST /transactions/recurring).                *)
(***************************************************************************)
Min(a, b) == IF a <= b THEN a ELSE b

\* Math.min(baseDay, lastDayOfMonth)
ActualDay(baseDay, lastDayOfMonth) == Min(baseDay, lastDayOfMonth)

\* Mutant of ProjectDate: the target month wraps to 0..11 without carrying
\* into the year.
ProjectDateSameYear(baseDate, i) ==
    LET targetYear == baseDate.y
        targetMonth == (baseDate.m + i) % 12
        lastDayOfMonth == NewDate(targetYear, targetMonth + 1, 0).d
    IN  NewDate(targetYear, targetMonth, Min(baseDate.d, lastDayOfMonth))

\* Loop body, iteration i (from 0): the projected local Date.
ProjectDate(baseDate, i) ==
    LET targetYear == baseDate.y
        targetMonth == baseDate.m + i
        lastDayOfMonth == NewDate(targetYear, targetMonth + 1, 0).d
    IN  NewDate(targetYear, targetMonth, ActualDay(baseDate.d, lastDayOfMonth))

\* Mutant of RecurringTransaction: the spread of base comes last, so the
\* base's own isFixed and groupId win.
RecurringTransactionBaseWins(id, base, date, groupId) ==
    [id |-> id, date |-> date, amount |-> base.amount,
     categoryId |-> OrNull(base, "categoryId"),
     description |-> base.description, type |-> base.type,
     isFixed |-> base.isFixed,
     groupId |-> IF Has(base, "groupId") THEN base.groupId ELSE groupId]

\* { id, ...base, date, categoryId: base.categoryId || null, groupId,
\*   isFixed: true }
RecurringTransaction(id, base, date, groupId) ==
    [id |-> id, date |-> date, amount |-> base.amount,
     categoryId |-> OrNull(base, "categoryId"),
     description |-> base.description, type |-> base.type,
     isFixed |-> TRUE, groupId |-> groupId]

\* Mutant of CreatedTransactions: the group's UUID is drawn inside the loop,
\* one per row.
CreatedTransactionsGroupPerRow(base, months, u) ==
    [k \in 1..months |->
        [id |-> Uuid(u + 2 * k), date |-> ToISODate(ProjectDate(ParseLocalDate(base.date), k - 1)),
         amount |-> base.amount, categoryId |-> OrNull(base, "categoryId"),
         description |-> base.description, type |-> base.type,
         isFixed |-> TRUE, groupId |-> Uuid(u + 2 * k - 1)]]

\* for (let i = 0; i < months; i++): the rows inserted, in order.  The
\* group's UUID is drawn first, then one UUID per row.
CreatedTransactions(base, months, u) ==
    LET baseDate == ParseLocalDate(base.date)
        groupId == Uuid(u + 1)
    IN  [k \in 1..months |->
            RecurringTransaction(Uuid(u + 1 + k), base,
                                 ToISODate(ProjectDate(baseDate, k - 1)), groupId)]

(***************************************************************************)
(* The group-scope mutator.                                                *)
(***************************************************************************)
\* Mutant of GroupNotFound: the lookup's result is never tested.
GroupNotFoundNeverTested(groupTransactions) == FALSE

\* if (groupTransactions.length === 0) return reply.status(404)...
GroupNotFound(groupTransactions) == Len(groupTransactions) = 0

\* Mutant of ToUpdate: the filter compares with > instead of >=.
ToUpdateStrictlyAfter(groupTransactions, body) ==
    LET Future(t) == Has(body, "fromDate") /\ t.date > body.fromDate
    IN  IF body.scope = "all" THEN groupTransactions
        ELSE SelectSeq(groupTransactions, Future)

\* PUT: scope === 'all' ? groupTransactions
\*      : groupTransactions.filter(t => fromDate && t.date >= fromDate)
ToUpdate(groupTransactions, body) ==
    LET Future(t) == Has(body, "fromDate") /\ t.date >= body.fromDate
    IN  IF body.scope = "all" THEN groupTransactions
        ELSE SelectSeq(groupTransactions, Future)

\* Mutant of GroupUpdateRow: the row's own date is not put back.
GroupUpdateRowPatchesDate(updates, tx) == SetColumns(tx, updates)

\* .set({ ...updates, date: tx.date, updatedAt })
GroupUpdateRow(updates, tx) ==
    [SetColumns(tx, updates) EXCEPT !.date = tx.date]

\* Mutant of DeleteScope: a missing scope defaults to 'future'.
DeleteScopeDefaultFuture(query) ==
    IF Has(query, "scope") THEN query.scope ELSE "future"

\* DELETE: const { scope = 'all', fromDate } = request.query
DeleteScope(query) == IF Has(query, "scope") THEN query.scope ELSE "all"

\* Mutants of ToDelete: the filter compares with > instead of >= ; a missing
\* fromDate selects the whole group.
ToDeleteStrictlyAfter(groupTransactions, query) ==
    LET Future(t) == t.date > query.fromDate
    IN  IF DeleteScope(query) = "all" THEN groupTransactions
        ELSE IF Has(query, "fromDate") THEN SelectSeq(groupTransactions, Future)
        ELSE <<>>

ToDeleteNoFromDateMeansAll(groupTransactions, query) ==
    LET Future(t) == t.date >= query.fromDate
    IN  IF DeleteScope(query) = "all" THEN groupTransactions
        ELSE IF Has(query, "fromDate") THEN SelectSeq(groupTransactions, Future)
        ELSE groupTransactions

\* DELETE: the rows removed.  if (scope === 'all') every row of the group;
\* else if (fromDate) groupTransactions.filter(t => t.date >= fromDate)
ToDelete(groupTransactions, query) ==
    LET Future(t) == t.date >= query.fromDate
    IN  IF DeleteScope(query) = "all" THEN groupTransactions
        ELSE IF Has(query, "fromDate") THEN SelectSeq(groupTransactions, Future)
        ELSE <<>>

(***************************************************************************)
(* Handlers.  Each is one step: a handler runs to completion on Node's     *)
(* single thread (better-sqlite3 calls are synchronous).                   *)
(***************************************************************************)
Handled(request, response) ==
    /\ nreq < MaxRequests
    /\ nreq' = nreq + 1
    /\ req' = request
    /\ resp' = response
    /\ before' = transactions
    /\ beforeCategories' = categories
    /\ beforeSettings' = settings
    /\ tz' = tz
    /\ UNCHANGED <<inflight, call, uiVars>>

\* POST /transactions
PostTransaction(op, body) ==
    LET id == Uuid(uuids + 1)
        created == NewTransaction(id, TransactionSchemaData(body))
    IN  /\ UNCHANGED <<categories, settings>>
        /\ IF ~TransactionSchemaOk(body)
           THEN /\ Handled([op |-> op, body |-> body], Err(400, "VALIDATION_ERROR"))
                /\ UNCHANGED <<transactions, uuids>>
           ELSE /\ Handled([op |-> op, body |-> body], Ok(201, created))
                /\ transactions' = Append(transactions, created)
                /\ uuids' = uuids + 1

CreateTransaction(body) == PostTransaction("create", body)

\* POST /transactions/recurring
CreateRecurring(body) ==
    LET request == [op |-> "createRecurring", body |-> body]
        months == RecurringRequestMonths(body)
        base == TransactionSchemaData(body.base)
        created == CreatedTransactions(base, months, uuids)
    IN  /\ UNCHANGED <<categories, settings>>
        /\ IF ~RecurringRequestSchemaOk(body)
           THEN /\ Handled(request, Err(400, "VALIDATION_ERROR"))
                /\ UNCHANGED <<transactions, uuids>>
           ELSE IF ~ParseLocalDate(base.date).ok
           \* projectDate.toISOString() throws RangeError in the first iteration,
           \* after the group's and the first row's UUID and before any insert
           THEN /\ Handled(request, Thrown)
                /\ transactions' = transactions
                /\ uuids' = uuids + 2
           ELSE /\ Handled(request, Ok(201, created))
                /\ transactions' = transactions \o created
                /\ uuids' = uuids + 1 + months

\* PUT /transactions/:id
UpdateTransaction(id, body) ==
    LET request == [op |-> "update", id |-> id, body |-> body]
        Updated(t) == IF t.id = id THEN SetColumns(t, TransactionUpdateSchemaData(body)) ELSE t
        after == [k \in 1..Len(transactions) |-> Updated(transactions[k])]
    IN  /\ uuids' = uuids
        /\ UNCHANGED <<categories, settings>>
        /\ IF ~TransactionUpdateSchemaOk(body)
           THEN /\ Handled(request, Err(400, "VALIDATION_ERROR"))
                /\ transactions' = transactions
           ELSE IF ById(transactions, id) = {}
           THEN /\ Handled(request, Err(404, "NOT_FOUND"))
                /\ transactions' = transactions
           ELSE /\ Handled(request, Ok(200, after[CHOOSE k \in ById(transactions, id) : TRUE]))
                /\ transactions' = after

\* PUT /transactions/group/:groupId
UpdateGroup(groupId, body) ==
    LET request == [op |-> "updateGroup", groupId |-> groupId, body |-> body]
        groupTransactions == ByGroup(transactions, groupId)
        toUpdate == Ids(ToUpdate(groupTransactions, body))
        Updated(t) == IF t.id \in toUpdate
                     THEN GroupUpdateRow(TransactionUpdateSchemaData(body.updates), t) ELSE t
        after == [k \in 1..Len(transactions) |-> Updated(transactions[k])]
    IN  /\ uuids' = uuids
        /\ UNCHANGED <<categories, settings>>
        /\ IF ~GroupUpdateSchemaOk(body)
           THEN /\ Handled(request, Err(400, "VALIDATION_ERROR"))
                /\ transactions' = transactions
           ELSE IF GroupNotFound(groupTransactions)
           THEN /\ Handled(request, Err(404, "NOT_FOUND"))
                /\ transactions' = transactions
           ELSE /\ Handled(request, Ok(200, ByGroup(after, groupId)))
                /\ transactions' = after

\* Mutant of DeleteTransaction: the row is not looked up first.
DeleteTransactionUnchecked(id) ==
    /\ Handled([op |-> "delete", id |-> id], Ok(200, [deleted |-> TRUE]))
    /\ transactions' = Without(transactions, {id})
    /\ UNCHANGED <<uuids, categories, settings>>

\* DELETE /transactions/:id
DeleteTransaction(id) ==
    LET request == [op |-> "delete", id |-> id]
    IN  /\ uuids' = uuids
        /\ UNCHANGED <<categories, settings>>
        /\ IF ById(transactions, id) = {}
           THEN /\ Handled(request, Err(404, "NOT_FOUND"))
                /\ transactions' = transactions
           ELSE /\ Handled(request, Ok(200, [deleted |-> TRUE]))
                /\ transactions' = Without(transactions, {id})

\* DELETE /transactions/group/:groupId
DeleteGroup(groupId, query) ==
    LET request == [op |-> "deleteGroup", groupId |-> groupId, query |-> query]
        groupTransactions == ByGroup(transactions, groupId)
        toDelete == ToDelete(groupTransactions, query)
    IN  /\ uuids' = uuids
        /\ UNCHANGED <<categories, settings>>
        /\ IF GroupNotFound(groupTransactions)
           THEN /\ Handled(request, Err(404, "NOT_FOUND"))
                /\ transactions' = transactions
           ELSE /\ Handled(request, Ok(200, [deleted |-> Len(toDelete)]))
                /\ transactions' = Without(transactions, Ids(toDelete))

(***************************************************************************)
(* The other routes of the server: reads of transactions, the categories   *)
(* and settings routes, and the bulk import and export of routes/migrate.  *)
(* new Date().toISOString() and SQLite's datetime('now') are the one value *)
(* Now: the clock is not modelled.                                         *)
(***************************************************************************)
Now == "now"

\* GET /transactions: the conditions pushed for the query string, and-ed.
\* if (startDate), if (endDate), if (categoryId), if (type) skip an absent
\* and an empty value; isFixed !== undefined compares the column with
\* (isFixed === 'true').
\* The query strings of the model carry no empty date.
Supplied(query, f) == Has(query, f) /\ query[f] # ""

\* Mutant of Conditions: endDate is exclusive.
ConditionsEndExclusive(query, t) ==
    /\ Has(query, "startDate") => t.date >= query.startDate
    /\ Has(query, "endDate") => t.date < query.endDate
    /\ Supplied(query, "categoryId") => t.categoryId = query.categoryId
    /\ Supplied(query, "type") => t.type = query.type
    /\ Has(query, "isFixed") => t.isFixed = (query.isFixed = "true")

Conditions(query, t) ==
    /\ Has(query, "startDate") => t.date >= query.startDate
    /\ Has(query, "endDate") => t.date <= query.endDate
    /\ Supplied(query, "categoryId") => t.categoryId = query.categoryId
    /\ Supplied(query, "type") => t.type = query.type
    /\ Has(query, "isFixed") => t.isFixed = (query.isFixed = "true")

ListTransactions(query) ==
    LET Selected(t) == Conditions(query, t)
    IN  /\ Handled([op |-> "list", query |-> query],
                   Ok(200, SelectSeq(transactions, Selected)))
        /\ UNCHANGED <<transactions, uuids, categories, settings>>

\* GET /transactions/:id
GetTransaction(id) ==
    /\ Handled([op |-> "get", id |-> id],
               IF ById(transactions, id) = {} THEN Err(404, "NOT_FOUND")
               ELSE Ok(200, transactions[CHOOSE k \in ById(transactions, id) : TRUE]))
    /\ UNCHANGED <<transactions, uuids, categories, settings>>

Periods == {"weekly", "monthly"}

HexDigits ==
    {"0", "1", "2", "3", "4", "5", "6", "7", "8", "9",
     "a", "b", "c", "d", "e", "f", "A", "B", "C", "D", "E", "F"}

\* /^#[0-9a-fA-F]{6}$/ ; a colour is the sequence of its characters.
ColorRegex(c) ==
    /\ Len(c) = 7
    /\ c[1] = "#"
    /\ \A k \in 2..7 : c[k] \in HexDigits

CategoryKeys == {"name", "weeklyBudget", "period", "color"}

\* categorySchema.safeParse(body).success
CategorySchemaOk(b) ==
    /\ Has(b, "name") /\ b.name # ""
    /\ Has(b, "weeklyBudget") /\ b.weeklyBudget >= 0
    /\ Has(b, "period") /\ b.period \in Periods
    /\ Has(b, "color") /\ ColorRegex(b.color)

\* categoryUpdateSchema = categorySchema.partial()
CategoryUpdateSchemaOk(p) ==
    /\ Has(p, "name") => p.name # ""
    /\ Has(p, "weeklyBudget") => p.weeklyBudget >= 0
    /\ Has(p, "period") => p.period \in Periods
    /\ Has(p, "color") => ColorRegex(p.color)

\* GET /categories
ListCategories ==
    /\ Handled([op |-> "listCategories"], Ok(200, categories))
    /\ UNCHANGED <<transactions, uuids, categories, settings>>

\* GET /categories/:id
GetCategory(id) ==
    /\ Handled([op |-> "getCategory", id |-> id],
               IF ById(categories, id) = {} THEN Err(404, "NOT_FOUND")
               ELSE Ok(200, categories[CHOOSE k \in ById(categories, id) : TRUE]))
    /\ UNCHANGED <<transactions, uuids, categories, settings>>

\* POST /categories
CreateCategory(body) ==
    LET request == [op |-> "createCategory", body |-> body]
        newCategory == [id |-> Uuid(uuids + 1)] @@ Strip(body, CategoryKeys)
    IN  /\ UNCHANGED <<transactions, settings>>
        /\ IF ~CategorySchemaOk(body)
           THEN /\ Handled(request, Err(400, "VALIDATION_ERROR"))
                /\ UNCHANGED <<categories, uuids>>
           ELSE /\ Handled(request, Ok(201, newCategory))
                /\ categories' = Append(categories, newCategory)
                /\ uuids' = uuids + 1

\* PUT /categories/:id
UpdateCategory(id, body) ==
    LET request == [op |-> "updateCategory", id |-> id, body |-> body]
        Updated(c) == IF c.id = id THEN SetColumns(c, Strip(body, CategoryKeys)) ELSE c
        after == [k \in 1..Len(categories) |-> Updated(categories[k])]
    IN  /\ UNCHANGED <<transactions, uuids, settings>>
        /\ IF ~CategoryUpdateSchemaOk(body)
           THEN /\ Handled(request, Err(400, "VALIDATION_ERROR"))
                /\ categories' = categories
           ELSE IF ById(categories, id) = {}
           THEN /\ Handled(request, Err(404, "NOT_FOUND"))
                /\ categories' = categories
           ELSE /\ Handled(request, Ok(200, after[CHOOSE k \in ById(categories, id) : TRUE]))
                /\ categories' = after

\* DELETE /categories/:id
DeleteCategory(id) ==
    LET request == [op |-> "deleteCategory", id |-> id]
    IN  /\ UNCHANGED <<transactions, uuids, settings>>
        /\ IF ById(categories, id) = {}
           THEN /\ Handled(request, Err(404, "NOT_FOUND"))
                /\ categories' = categories
           ELSE /\ Handled(request, Ok(200, [deleted |-> TRUE]))
                /\ categories' = Without(categories, {id})

\* The row that GET /settings, PUT /settings, the seed and the migration
\* script insert when there is none.
DefaultSettings ==
    [id |-> 1, monthlyIncome |-> 8000, currency |-> "$", showFixedCosts |-> TRUE,
     checkingBalance |-> 0, creditCardBalance |-> 0, balanceAsOf |-> Now]

SettingsKeys ==
    {"monthlyIncome", "currency", "showFixedCosts", "checkingBalance",
     "creditCardBalance", "balanceAsOf"}

\* settingsUpdateSchema.safeParse(body).success : every property optional
\* (absent, not null).
SettingsUpdateSchemaOk(b) ==
    /\ Has(b, "monthlyIncome") => b.monthlyIncome >= 0
    /\ Has(b, "currency") => (b.currency # NULL /\ b.currency # "")
    /\ Has(b, "balanceAsOf") => b.balanceAsOf # NULL

\* Mutant of EnsureSettings: a row is inserted whether or not one is there.
EnsureSettingsAlwaysInserts(table) == Append(table, DefaultSettings)

\* if (!settings) db.insert(schema.settings).values({ id: 1, ...defaults })
EnsureSettings(table) ==
    IF table = <<>> THEN <<DefaultSettings>> ELSE table

\* GET /settings
GetSettings ==
    /\ settings' = EnsureSettings(settings)
    /\ Handled([op |-> "getSettings"], Ok(200, settings'[1]))
    /\ UNCHANGED <<transactions, uuids, categories>>

\* PUT /settings
PutSettings(body) ==
    LET request == [op |-> "putSettings", body |-> body]
        ensured == EnsureSettings(settings)
        Updated(r) == IF r.id = 1 THEN SetColumns(r, Strip(body, SettingsKeys)) ELSE r
        after == [k \in 1..Len(ensured) |-> Updated(ensured[k])]
    IN  /\ UNCHANGED <<transactions, uuids, categories>>
        /\ IF ~SettingsUpdateSchemaOk(body)
           THEN /\ Handled(request, Err(400, "VALIDATION_ERROR"))
                /\ settings' = settings
           ELSE /\ Handled(request, Ok(200, after[1]))
                /\ settings' = after

\* The schemas of routes/migrate (categorySchema, transactionSchema,
\* settingsSchema, importSchema): z.string(), z.number() and z.boolean()
\* accept any value of the type, not null; .optional() accepts an absent
\* property, not null.  The requests of the model carry null in string
\* properties only.
Required(r, f) == Has(r, f)

RequiredString(r, f) == Has(r, f) /\ r[f] # NULL

OptionalString(r, f) == Has(r, f) => r[f] # NULL

ImportCategorySchemaOk(c) ==
    /\ \A f \in {"id", "name"} : RequiredString(c, f)
    /\ \A f \in {"weeklyBudget", "color"} : Required(c, f)
    /\ Required(c, "period") /\ c.period \in Periods

ImportTransactionSchemaOk(t) ==
    /\ \A f \in {"id", "categoryId", "description"} : RequiredString(t, f)
    /\ \A f \in {"date", "amount"} : Required(t, f)
    /\ Required(t, "type") /\ t.type \in Types
    /\ OptionalString(t, "groupId")

ImportSettingsSchemaOk(st) ==
    /\ \A f \in {"monthlyIncome", "showFixedCosts"} : Required(st, f)
    /\ RequiredString(st, "currency")
    /\ OptionalString(st, "balanceAsOf")

\* importSchema.safeParse(body).success
ImportSchemaOk(b) ==
    /\ Has(b, "categories")
    /\ \A k \in 1..Len(b.categories) : ImportCategorySchemaOk(b.categories[k])
    /\ Has(b, "transactions")
    /\ \A k \in 1..Len(b.transactions) : ImportTransactionSchemaOk(b.transactions[k])
    /\ Has(b, "settings") /\ ImportSettingsSchemaOk(b.settings)

\* db.insert(schema.categories).values(category)
ImportedCategory(c) ==
    [id |-> c.id, name |-> c.name, weeklyBudget |-> c.weeklyBudget,
     period |-> c.period, color |-> c.color]

\* { ...transaction, categoryId: transaction.categoryId || null,
\*   groupId: transaction.groupId || null, isFixed: transaction.isFixed || false }
ImportedTransaction(t) ==
    [id |-> t.id, date |-> t.date, amount |-> t.amount,
     categoryId |-> OrNull(t, "categoryId"),
     description |-> t.description, type |-> t.type,
     isFixed |-> (Has(t, "isFixed") /\ t.isFixed), groupId |-> OrNull(t, "groupId")]

\* settings.checkingBalance || 0
OrZero(r, f) == IF Has(r, f) THEN r[f] ELSE 0

\* The columns the settings upsert writes, on either branch.
ImportedSettings(st) ==
    [monthlyIncome |-> st.monthlyIncome, currency |-> st.currency,
     showFixedCosts |-> st.showFixedCosts,
     checkingBalance |-> OrZero(st, "checkingBalance"),
     creditCardBalance |-> OrZero(st, "creditCardBalance"),
     balanceAsOf |-> IF Has(st, "balanceAsOf") /\ st.balanceAsOf # ""
                     THEN st.balanceAsOf ELSE Now]

\* Mutant of ImportLoop: a row whose id is stored replaces the stored row.
RECURSIVE ImportLoopOverwrites(_, _, _)
ImportLoopOverwrites(table, rows, imported) ==
    LET row == Head(rows)
        Replaced(r) == IF r.id = row.id THEN row ELSE r
    IN  IF rows = <<>> THEN [table |-> table, imported |-> imported]
        ELSE IF row.id \in Ids(table)
        THEN ImportLoopOverwrites([k \in 1..Len(table) |-> Replaced(table[k])],
                                  Tail(rows), imported)
        ELSE ImportLoopOverwrites(Append(table, row), Tail(rows), imported + 1)

\* for (const row of rows) { existing = select by id; if (!existing) { insert;
\* imported++ } } : the table and the counter after the loop.
RECURSIVE ImportLoop(_, _, _)
ImportLoop(table, rows, imported) ==
    IF rows = <<>> THEN [table |-> table, imported |-> imported]
    ELSE IF Head(rows).id \in Ids(table)
    THEN ImportLoop(table, Tail(rows), imported)
    ELSE ImportLoop(Append(table, Head(rows)), Tail(rows), imported + 1)

\* POST /migrate/import
Import(body) ==
    LET request == [op |-> "import", body |-> body]
        cats == ImportLoop(categories,
                           [k \in 1..Len(body.categories) |-> ImportedCategory(body.categories[k])], 0)
        txs == ImportLoop(transactions,
                          [k \in 1..Len(body.transactions) |-> ImportedTransaction(body.transactions[k])], 0)
        Updated(r) == IF r.id = 1 THEN SetColumns(r, ImportedSettings(body.settings)) ELSE r
    IN  /\ uuids' = uuids
        /\ IF ~ImportSchemaOk(body)
           THEN /\ Handled(request, Err(400, "VALIDATION_ERROR"))
                /\ UNCHANGED <<transactions, categories, settings>>
           ELSE /\ Handled(request,
                           Ok(200, [categoriesImported |-> cats.imported,
                                    transactionsImported |-> txs.imported,
                                    settingsUpdated |-> TRUE]))
                /\ categories' = cats.table
                /\ transactions' = txs.table
                /\ settings' = IF settings # <<>>
                               THEN [k \in 1..Len(settings) |-> Updated(settings[k])]
                               ELSE <<[id |-> 1] @@ ImportedSettings(body.settings)>>

\* GET /migrate/export : { categories, transactions, settings, exportedAt };
\* .get() answers undefined when there is no settings row, and JSON leaves
\* an undefined property out.
ExportOf(cats, txs, st) ==
    LET tables == [categories |-> cats, transactions |-> txs, exportedAt |-> Now]
    IN  IF st = <<>> THEN tables ELSE [settings |-> st[1]] @@ tables

ExportData == ExportOf(categories, transactions, settings)

Export ==
    /\ Handled([op |-> "export"], Ok(200, ExportData))
    /\ UNCHANGED <<transactions, uuids, categories, settings>>

(***************************************************************************)
(* Persistence failures.  The loops of the recurring create, of the group  *)
(* update and of the scope=future group delete issue one statement per row *)
(* with .run(), outside any db.transaction and any try/catch: when the     *)
(* statement of step k throws (a constraint, a full disk, a locked file),  *)
(* the handler ends there, Fastify answers 500, and SQLite has committed   *)
(* each earlier statement on its own.                                      *)
(***************************************************************************)
\* Mutant of PersistedBeforeFailure: the earlier statements are rolled back.
PersistedBeforeFailureRolledBack(rows, k) == <<>>

\* The rows whose statement ran before the one of step k threw.
PersistedBeforeFailure(rows, k) == SubSeq(rows, 1, k - 1)

\* POST /transactions/recurring, the insert of iteration k (from 1) throws:
\* the group's UUID and k row UUIDs have been drawn.
CreateRecurringFailing(body, k) ==
    LET request == [op |-> "createRecurring", body |-> body, failAt |-> k]
        months == RecurringRequestMonths(body)
        base == TransactionSchemaData(body.base)
        created == CreatedTransactions(base, months, uuids)
    IN  /\ RecurringRequestSchemaOk(body)
        /\ ParseLocalDate(base.date).ok
        /\ k \in 1..months
        /\ Handled(request, Thrown)
        /\ transactions' = transactions \o PersistedBeforeFailure(created, k)
        /\ uuids' = uuids + 1 + k
        /\ UNCHANGED <<categories, settings>>

\* PUT /transactions/group/:groupId, the update of the k-th row of toUpdate
\* throws.
UpdateGroupFailing(groupId, body, k) ==
    LET request == [op |-> "updateGroup", groupId |-> groupId, body |-> body, failAt |-> k]
        groupTransactions == ByGroup(transactions, groupId)
        toUpdate == ToUpdate(groupTransactions, body)
        done == Ids(PersistedBeforeFailure(toUpdate, k))
        Updated(t) == IF t.id \in done
                     THEN GroupUpdateRow(TransactionUpdateSchemaData(body.updates), t) ELSE t
    IN  /\ GroupUpdateSchemaOk(body)
        /\ ~GroupNotFound(groupTransactions)
        /\ k \in 1..Len(toUpdate)
        /\ Handled(request, Thrown)
        /\ transactions' = [j \in 1..Len(transactions) |-> Updated(transactions[j])]
        /\ UNCHANGED <<uuids, categories, settings>>

\* DELETE /transactions/group/:groupId with scope=future and a fromDate, the
\* delete of the k-th row of toDelete throws.  (scope=all is one statement.)
DeleteGroupFailing(groupId, query, k) ==
    LET request == [op |-> "deleteGroup", groupId |-> groupId, query |-> query, failAt |-> k]
        groupTransactions == ByGroup(transactions, groupId)
        toDelete == ToDelete(groupTransactions, query)
    IN  /\ ~GroupNotFound(groupTransactions)
        /\ DeleteScope(query) # "all" /\ Has(query, "fromDate")
        /\ k \in 1..Len(toDelete)
        /\ Handled(request, Thrown)
        /\ transactions' = Without(transactions, Ids(PersistedBeforeFailure(toDelete, k)))
        /\ UNCHANGED <<uuids, categories, settings>>

(***************************************************************************)
(* Concurrent requests, statement by statement.  Every better-sqlite3 call *)
(* (.all(), .get(), .run()) is one synchronous statement.  A handler is an *)
(* async function whose body holds no await: once Node's event loop has    *)
(* called it, it runs all of its statements before the loop calls the next *)
(* handler.  inflight holds the requests that have arrived: each queued,   *)
(* running (with the rows its first select returned and the index of its   *)
(* next loop iteration) or done (with its response).                       *)
(***************************************************************************)
Pending ==
    [status |-> 0, envelope |-> FALSE, success |-> FALSE, code |-> "", data |-> <<>>]

Task(request) ==
    [request |-> request, pc |-> "queued", rows |-> <<>>, i |-> 0, resp |-> Pending]

Running(t, rows) == [t EXCEPT !.pc = "running", !.rows = rows, !.i = 1]

Done(t, response) == [t EXCEPT !.pc = "done", !.resp = response]

\* Mutant of EventLoopFree: handlers yield between their statements (as if
\* each store call were awaited), so the loop may call a handler while
\* another is part-way through.
EventLoopFreeYielding == TRUE

\* The event loop calls the next handler only when no handler is running:
\* the handler bodies hold no await between their store calls.
EventLoopFree == \A k \in 1..Len(inflight) : inflight[k].pc # "running"

\* db.update(transactions).set({ ...updates, date: tx.date, updatedAt })
\*   .where(eq(transactions.id, tx.id)).run() : the stored row with tx's id,
\* if there still is one, gets the columns of updates and tx's date.
UpdateStatement(store, updates, tx) ==
    [j \in 1..Len(store) |->
        IF store[j].id = tx.id
        THEN [SetColumns(store[j], updates) EXCEPT !.date = tx.date]
        ELSE store[j]]

\* db.delete(transactions).where(eq(transactions.groupId, groupId)).run()
DeleteByGroupStatement(store, groupId) ==
    Without(store, Ids(ByGroup(store, groupId)))

\* db.insert(settings).values({ id: 1, ... }).run() : id is the primary key,
\* so the insert throws when a row with id 1 is stored.
InsertSettingsThrows(table) == \E j \in 1..Len(table) : table[j].id = 1

\* A request arrives while others may be in flight.
Arrive(request) ==
    /\ Len(inflight) < MaxInflight
    /\ inflight' = Append(inflight, Task(request))
    /\ UNCHANGED <<serverVars, call, uiVars>>

\* The event loop calls the handler of request k, which runs its first
\* select (and answers 404 at once for an empty group).
BeginTask(k) ==
    LET t == inflight[k]
        r == t.request
        groupTransactions == ByGroup(transactions, r.groupId)
        started ==
            IF r.op = "getSettings" THEN Running(t, settings)
            ELSE IF GroupNotFound(groupTransactions) THEN Done(t, Err(404, "NOT_FOUND"))
            ELSE IF r.op = "updateGroup" THEN Running(t, ToUpdate(groupTransactions, r.body))
            ELSE IF DeleteScope(r.query) = "all" THEN Running(t, groupTransactions)
            ELSE Running(t, ToDelete(groupTransactions, r.query))
    IN  /\ t.pc = "queued"
        /\ EventLoopFree
        /\ inflight' = [inflight EXCEPT ![k] = started]
        /\ UNCHANGED <<serverVars, call, uiVars>>

\* The next statement of the running handler of request k.
\*   PUT group: one update per row of toUpdate, then the select of the
\*     group that is the response.
\*   DELETE group: scope=all is one delete by groupId; otherwise one delete
\*     per row of toDelete, deletedCount++ each; then the response.
\*   GET /settings: the insert of the defaults if the select found no row,
\*     then the second select; the response.
StepTask(k) ==
    LET t == inflight[k]
        r == t.request
        next == [t EXCEPT !.i = t.i + 1]
    IN  /\ t.pc = "running"
        /\ UNCHANGED <<tz, uuids, nreq, req, resp, before,
                       categories, beforeCategories, beforeSettings, call, uiVars>>
        /\ IF r.op = "updateGroup"
           THEN /\ settings' = settings
                /\ IF t.i <= Len(t.rows)
                   THEN /\ transactions' =
                             UpdateStatement(transactions,
                                             TransactionUpdateSchemaData(r.body.updates),
                                             t.rows[t.i])
                        /\ inflight' = [inflight EXCEPT ![k] = next]
                   ELSE /\ transactions' = transactions
                        /\ inflight' = [inflight EXCEPT
                                          ![k] = Done(t, Ok(200, ByGroup(transactions, r.groupId)))]
           ELSE IF r.op = "deleteGroup"
           THEN /\ settings' = settings
                /\ IF DeleteScope(r.query) = "all" /\ t.i = 1
                   THEN /\ transactions' = DeleteByGroupStatement(transactions, r.groupId)
                        /\ inflight' = [inflight EXCEPT ![k] = [t EXCEPT !.i = Len(t.rows) + 1]]
                   ELSE IF t.i <= Len(t.rows)
                   THEN /\ transactions' = Without(transactions, {t.rows[t.i].id})
                        /\ inflight' = [inflight EXCEPT ![k] = next]
                   ELSE /\ transactions' = transactions
                        /\ inflight' = [inflight EXCEPT
                                          ![k] = Done(t, Ok(200, [deleted |-> Len(t.rows)]))]
           ELSE /\ transactions' = transactions
                /\ IF t.rows = <<>> /\ t.i = 1
                   THEN IF InsertSettingsThrows(settings)
                        THEN /\ settings' = settings
                             /\ inflight' = [inflight EXCEPT ![k] = Done(t, Thrown)]
                        ELSE /\ settings' = Append(settings, DefaultSettings)
                             /\ inflight' = [inflight EXCEPT ![k] = next]
                   ELSE /\ settings' = settings
                        /\ inflight' = [inflight EXCEPT
                                          ![k] = Done(t, Ok(200, IF t.rows = <<>> THEN settings[1]
                                                                 ELSE t.rows[1]))]

(***************************************************************************)
(* The MCP tool log_transaction: the SDK validates the tool's parameters,  *)
(* then the tool posts them to /transactions.                              *)
(***************************************************************************)
LogTransactionParamsOk(params) ==
    /\ DOMAIN params \subseteq {"amount", "description", "categoryId", "date", "type", "isFixed"}
    /\ Has(params, "amount") /\ params.amount > 0
    /\ Has(params, "description")
    /\ Has(params, "categoryId") /\ params.categoryId # NULL
    /\ Has(params, "date") /\ DateRegex(params.date)
    /\ Has(params, "type") /\ params.type \in Types

LogTransaction(params) ==
    /\ LogTransactionParamsOk(params)
    /\ PostTransaction("log_transaction", params)

(***************************************************************************)
(* The web client's transaction mutations: the transaction modal hands the *)
(* form and the recurrence choice to handleTransactionSubmit or            *)
(* handleTransactionDelete, which call the mutation hooks; the hook's      *)
(* mutationFn sends one request.  The client's transaction list is the     *)
(* ['transactions'] query, refetched after every mutation: it is the       *)
(* store's list.  An undefined argument is NULL.  call.seq is the number   *)
(* the call's request will have among the requests handled.                *)
(***************************************************************************)
\* JavaScript truthiness of an optional string.
Truthy(x) == x # NULL /\ x # ""

\* TransactionModal.handleAction: the form's fields, and
\* groupId: initialData?.groupId || (isFixed ? crypto.randomUUID() : undefined)
\* (the forms of the model edit rows that are not fixed or have a groupId).
TxData(initialData, form) ==
    IF Truthy(initialData.groupId)
    THEN [groupId |-> initialData.groupId] @@ form
    ELSE form

\* handleTransactionSubmit with editingTx set: updateTransaction.mutateAsync(
\*   { id: editingTx.id, data: txData, recurrence,
\*     groupId: editingTx.groupId, fromDate: editingTx.date })
HandleTransactionSubmit(k, form, recurrence) ==
    LET editingTx == transactions[k]
    IN  /\ call.seq # nreq + 1
        /\ nreq < MaxRequests
        /\ call' = [seq |-> nreq + 1, kind |-> "update", id |-> editingTx.id,
                    data |-> TxData(editingTx, form), recurrence |-> recurrence,
                    groupId |-> editingTx.groupId, fromDate |-> editingTx.date]
        /\ UNCHANGED <<serverVars, inflight, uiVars>>

\* handleTransactionDelete: tx = transactions.find(t => t.id === id), then
\* deleteTransaction.mutateAsync({ id, recurrence, groupId: tx?.groupId,
\*                                 fromDate: tx?.date })
HandleTransactionDelete(id, recurrence) ==
    LET found == ById(transactions, id)
        tx == transactions[CHOOSE k \in found : TRUE]
    IN  /\ call.seq # nreq + 1
        /\ nreq < MaxRequests
        /\ call' = [seq |-> nreq + 1, kind |-> "delete", id |-> id,
                    data |-> <<>>, recurrence |-> recurrence,
                    groupId |-> IF found = {} THEN NULL ELSE tx.groupId,
                    fromDate |-> IF found = {} THEN 0 ELSE tx.date]
        /\ UNCHANGED <<serverVars, inflight, uiVars>>

\* Mutant of UseGroupEndpoint: the choice 'one' is not excluded.
UseGroupEndpointAlsoForOne(recurrence, groupId) ==
    Truthy(recurrence) /\ Truthy(groupId)

\* if (recurrence && groupId && recurrence !== 'one')
UseGroupEndpoint(recurrence, groupId) ==
    Truthy(recurrence) /\ Truthy(groupId) /\ recurrence # "one"

\* const scope = recurrence === 'all' ? 'all' : 'future'
ScopeOf(recurrence) == IF recurrence = "all" THEN "all" ELSE "future"

\* useUpdateTransaction's mutationFn: transactionsApi.updateGroup sends
\* { updates, scope, fromDate } (handleTransactionSubmit always passes a
\* fromDate), transactionsApi.update sends data.
UpdateMutationFn ==
    /\ call.seq = nreq + 1
    /\ call.kind = "update"
    /\ IF UseGroupEndpoint(call.recurrence, call.groupId)
       THEN UpdateGroup(call.groupId,
                        [updates |-> call.data, scope |-> ScopeOf(call.recurrence),
                         fromDate |-> call.fromDate])
       ELSE UpdateTransaction(call.id, call.data)

\* useDeleteTransaction's mutationFn: transactionsApi.deleteGroup sends
\* ?scope=..., and &fromDate=... if (fromDate).
DeleteMutationFn ==
    /\ call.seq = nreq + 1
    /\ call.kind = "delete"
    /\ IF UseGroupEndpoint(call.recurrence, call.groupId)
       THEN DeleteGroup(call.groupId,
                        IF call.fromDate # 0
                        THEN [scope |-> ScopeOf(call.recurrence), fromDate |-> call.fromDate]
                        ELSE [scope |-> ScopeOf(call.recurrence)])
       ELSE DeleteTransaction(call.id)

(***************************************************************************)
(* The web client's settings: the ['settings'] query of useSettings and    *)
(* the optimistic mutation of useUpdateSettings.  cache.data is the query  *)
(* data (no value before the first fetch, else the settings object),       *)
(* cache.fetching says that a fetch of the query is in flight.  Each       *)
(* mutation goes through onMutate (which awaits cancelQueries before it    *)
(* reads and writes the cache), the PUT /settings request, and onError or  *)
(* onSuccess followed by onSettled.                                        *)
(***************************************************************************)
\* { ...previousSettings, ...newSettings }
Spread(previousSettings, newSettings) == newSettings @@ previousSettings

\* The settings table after an accepted PUT /settings with this body.
SettingsAfterPut(table, body) ==
    LET ensured == EnsureSettings(table)
    IN  [k \in 1..Len(ensured) |->
            IF ensured[k].id = 1
            THEN SetColumns(ensured[k], Strip(body, SettingsKeys))
            ELSE ensured[k]]

\* updateSettings.mutate(data): onMutate starts, calls cancelQueries (an
\* in-flight fetch of the query is dropped) and awaits it.
Mutate(data) ==
    /\ Len(mutations) < MaxMutations
    /\ mutations' = Append(mutations, [data |-> data, pc |-> "onMutate",
                                       previousSettings |-> <<>>])
    /\ cache' = [cache EXCEPT !.fetching = FALSE]
    /\ UNCHANGED <<serverVars, inflight, call, agent, tools, modal, stats>>

\* onMutate after the await, for the oldest mutation still in onMutate (the
\* awaits resolve in the order they were made): snapshot the cache, write
\* the optimistic value if there is a snapshot, return the context; the
\* request is sent.
OnMutate(k) ==
    LET m == mutations[k]
        previousSettings == cache.data
    IN  /\ m.pc = "onMutate"
        /\ \A j \in 1..(k - 1) : mutations[j].pc # "onMutate"
        /\ cache' = IF previousSettings # <<>>
                    THEN [cache EXCEPT !.data = <<Spread(previousSettings[1], m.data)>>]
                    ELSE cache
        /\ mutations' = [mutations EXCEPT
                            ![k] = [m EXCEPT !.pc = "sent",
                                             !.previousSettings = previousSettings]]
        /\ UNCHANGED <<serverVars, inflight, call, agent, tools, modal, stats>>

\* The request of mutation k fails (no connection, or the server rejects
\* the body): onError puts context.previousSettings back if there is one,
\* onSettled invalidates the query, which starts a refetch.
MutationFails(k) ==
    LET m == mutations[k]
    IN  /\ m.pc = "sent"
        /\ cache' = [data |-> IF m.previousSettings # <<>> THEN m.previousSettings
                              ELSE cache.data,
                     fetching |-> TRUE]
        /\ mutations' = [mutations EXCEPT ![k] = [m EXCEPT !.pc = "failed"]]
        /\ UNCHANGED <<serverVars, inflight, call, agent, tools, modal, stats>>

\* The request of mutation k is accepted by PUT /settings: onSettled
\* invalidates the query.
MutationSucceeds(k) ==
    LET m == mutations[k]
    IN  /\ m.pc = "sent"
        /\ SettingsUpdateSchemaOk(m.data)
        /\ settings' = SettingsAfterPut(settings, m.data)
        /\ cache' = [cache EXCEPT !.fetching = TRUE]
        /\ mutations' = [mutations EXCEPT ![k] = [m EXCEPT !.pc = "succeeded"]]
        /\ UNCHANGED <<tz, transactions, uuids, nreq, req, resp, before, categories,
                       beforeCategories, beforeSettings, inflight, call,
                       agent, tools, modal, stats>>

\* The fetch of the query (GET /settings) delivers the stored settings.
SettingsFetched ==
    /\ cache.fetching
    /\ settings' = EnsureSettings(settings)
    /\ cache' = [data |-> settings', fetching |-> FALSE]
    /\ UNCHANGED <<tz, transactions, uuids, nreq, req, resp, before, categories,
                   beforeCategories, beforeSettings, inflight, call,
                   mutations, agent, tools, modal, stats>>

\* The fetch of the query fails: the data stays.
SettingsFetchFails ==
    /\ cache.fetching
    /\ cache' = [cache EXCEPT !.fetching = FALSE]
    /\ UNCHANGED <<serverVars, inflight, call, mutations, agent, tools, modal, stats>>

(***************************************************************************)
(* The voice agent's session (LiveAgentOverlay).  A ref is TRUE when it    *)
(* holds a resource and FALSE when it is null.  startSession is an async   *)
(* function: it creates the audio contexts, awaits getUserMedia, stores    *)
(* the stream, awaits ai.live.connect (whose onopen callback builds the    *)
(* audio processor before the promise resolves), and stores the session.   *)
(* stopSession is synchronous and may run at either await.  runs holds     *)
(* the position of every startSession called; stopped says that            *)
(* stopSession ran after the last call of startSession.                    *)
(***************************************************************************)
NoRefs ==
    [inputContextRef |-> FALSE, outputContextRef |-> FALSE, mediaStreamRef |-> FALSE,
     processorRef |-> FALSE, sessionRef |-> FALSE]

AgentIdle == [runs |-> <<>>, refs |-> NoRefs, isActive |-> FALSE, stopped |-> FALSE]

AgentStep(next) ==
    /\ agent' = next
    /\ UNCHANGED <<serverVars, inflight, call, cache, mutations, tools, modal, stats>>

AtRun(r, pc) == [agent.runs EXCEPT ![r] = [@ EXCEPT !.pc = pc]]

\* startSession up to its first await (the effect on open, or the button
\* while no session is active): the audio contexts are created and stored.
StartSession ==
    /\ Len(agent.runs) < MaxSessions
    /\ ~agent.isActive
    /\ AgentStep([agent EXCEPT
                    !.runs = Append(@, [pc |-> "getUserMedia", contextsClosed |-> FALSE]),
                    !.refs = [@ EXCEPT !.inputContextRef = TRUE, !.outputContextRef = TRUE],
                    !.stopped = FALSE])

\* getUserMedia resolves: mediaStreamRef.current = stream; connect starts.
MediaGranted(r) ==
    /\ agent.runs[r].pc = "getUserMedia"
    /\ AgentStep([agent EXCEPT !.runs = AtRun(r, "connect"),
                               !.refs = [@ EXCEPT !.mediaStreamRef = TRUE]])

\* getUserMedia rejects: the catch block reports the error.
MediaDenied(r) ==
    /\ agent.runs[r].pc = "getUserMedia"
    /\ AgentStep([agent EXCEPT !.runs = AtRun(r, "finished")])

\* onopen: setIsActive(true); the processor is created on inputCtx and
\* stored.  On a context that stopSession has closed the creation may
\* throw (the ref is then not set) or go through.
OnOpen(r, created) ==
    /\ agent.runs[r].pc = "connect"
    /\ created \/ agent.runs[r].contextsClosed
    /\ AgentStep([agent EXCEPT !.runs = AtRun(r, "opened"),
                               !.isActive = TRUE,
                               !.refs = [@ EXCEPT !.processorRef = @ \/ created]])

\* ai.live.connect resolves: sessionRef.current = session.
Connected(r) ==
    /\ agent.runs[r].pc = "opened"
    /\ AgentStep([agent EXCEPT !.runs = AtRun(r, "finished"),
                               !.refs = [@ EXCEPT !.sessionRef = TRUE]])

\* ai.live.connect rejects: the catch block reports the error.
ConnectFails(r) ==
    /\ agent.runs[r].pc = "connect"
    /\ AgentStep([agent EXCEPT !.runs = AtRun(r, "finished")])

\* stopSession closes the contexts the refs hold, those of the startSession
\* called last; it does nothing to a startSession in progress.
StoppedRuns(runs) ==
    [r \in 1..Len(runs) |->
        IF r = Len(runs) THEN [runs[r] EXCEPT !.contextsClosed = TRUE] ELSE runs[r]]

\* stopSession (overlay closed, stop pressed, onclose, onerror): every
\* resource a ref holds is released and the ref set to null.
StopSession ==
    /\ agent.runs # <<>>
    /\ AgentStep([runs |-> StoppedRuns(agent.runs), refs |-> NoRefs,
                  isActive |-> FALSE, stopped |-> TRUE])

(***************************************************************************)
(* The voice agent's tool calls.  onmessage is an async callback: for each *)
(* function call of the message it awaits handleToolCall and then sends    *)
(* one tool response; the handlers of two messages interleave at their     *)
(* awaits.  A handler of the model is one run of onmessage: calls, the     *)
(* index i of the call in progress, pc ("loop": before the call,           *)
(* "awaiting": inside handleToolCall at a fetch), the request it sent and  *)
(* its number seq among the requests the server handles, and kept, the     *)
(* transactions get_budget_status holds while the categories are fetched,  *)
(* sent, the tool responses this run passed to session.sendToolResponse,   *)
(* in order, and errors, the calls whose error the catch block logged.     *)
(* tools is the sequence of the handlers.  A result is [text, data]: the   *)
(* fixed part of the returned string and the value formatted into it.      *)
(***************************************************************************)
ToolsIdle == <<>>

ToolNames ==
    {"log_transaction", "get_transactions", "delete_transaction", "get_spending_summary",
     "list_categories", "get_budget_status", "get_settings", "update_balance"}

\* The tools whose case reads a property of args before anything else: with
\* args undefined that read throws a TypeError, inside the try.
ReadsArgs ==
    {"log_transaction", "get_transactions", "delete_transaction", "get_spending_summary",
     "get_budget_status"}

ToolStep(next) ==
    /\ tools' = next
    /\ UNCHANGED <<serverVars, inflight, call, cache, mutations, agent, modal, stats>>

\* date.toISOString().split('T')[0] of a Date whose local time of day is
\* hour o'clock: the UTC day is the local day plus floor((hour - tz) / 24).
ToISODateAt(date, hour) ==
    LET shift == (hour - tz) \div 24
        utc == NewDate(date.y, date.m, date.d + shift)
    IN  DateString(utc.y, utc.m + 1, utc.d)

\* The startDate and endDate of get_spending_summary and get_budget_status.
\* now is new Date() as its local fields: y, m (0-based), d, day (getDay())
\* and hour.  'week': Monday of the current week (now with its date set)
\* to six days later; otherwise the first and the last day of the month at
\* local midnight.
PeriodRange(period, now) ==
    LET diff == now.d - now.day + (IF now.day = 0 THEN 0 - 6 ELSE 1)
        weekStart == NewDate(now.y, now.m, diff)
        weekEnd == NewDate(weekStart.y, weekStart.m, weekStart.d + 6)
    IN  IF period = "week"
        THEN [startDate |-> ToISODateAt(weekStart, now.hour),
              endDate |-> ToISODateAt(weekEnd, now.hour)]
        ELSE [startDate |-> ToISODate(NewDate(now.y, now.m, 1)),
              endDate |-> ToISODate(NewDate(now.y, now.m + 1, 0))]

\* args.period || 'month'
PeriodOf(args) == IF Has(args, "period") /\ args.period # "" THEN args.period ELSE "month"

\* The first request of a tool's case.  get_transactions sets a parameter
\* for each truthy argument (the calls of the model carry no empty date).
ToolRequest(fc, now) ==
    LET args == fc.args
        params == {f \in {"startDate", "endDate"} : Has(args, f)}
                  \cup {f \in {"categoryId", "type"} : Has(args, f) /\ Truthy(args[f])}
    IN  IF fc.name = "log_transaction"
        THEN IF Has(args, "isFixed") /\ args.isFixed
             THEN [op |-> "createRecurring",
                   body |-> [base |-> [args EXCEPT !.isFixed = TRUE], months |-> 12]]
             ELSE [op |-> "create", body |-> args]
        ELSE IF fc.name = "get_transactions"
        THEN [op |-> "list", query |-> [f \in params |-> args[f]]]
        ELSE IF fc.name = "delete_transaction"
        THEN [op |-> "delete", id |-> args.id]
        ELSE IF fc.name \in {"get_spending_summary", "get_budget_status"}
        THEN [op |-> "list", query |-> PeriodRange(PeriodOf(args), now)]
        ELSE IF fc.name = "list_categories"
        THEN [op |-> "listCategories"]
        ELSE IF fc.name = "get_settings"
        THEN [op |-> "getSettings"]
        ELSE [op |-> "putSettings",
              body |-> IF Has(fc, "args") THEN [balanceAsOf |-> Now] @@ args
                       ELSE [balanceAsOf |-> Now]]

RECURSIVE SumAmounts(_)
SumAmounts(txs) ==
    IF txs = <<>> THEN 0 ELSE Head(txs).amount + SumAmounts(Tail(txs))

\* The string a tool's case returns after its last response arrived: data
\* is data.data of the parsed response (undefined, here the empty tuple,
\* when the server answered an error).
ToolResult(fc, h, response) ==
    LET IsExpense(tx) == tx.type = "expense"
        IsFixedExpense(tx) == IsExpense(tx) /\ (tx.isFixed \/ tx.categoryId = "fixed")
        IsVariable(tx) == IsExpense(tx) /\ ~tx.isFixed /\ tx.categoryId # "fixed"
        total == SumAmounts(SelectSeq(response.data, IsExpense))
        fixed == SumAmounts(SelectSeq(response.data, IsFixedExpense))
        cats == response.data
        period == PeriodOf(fc.args)
        Status(c) ==
            LET In(tx) == IsVariable(tx) /\ tx.categoryId = c.id
            IN  [name |-> c.name, spent |-> SumAmounts(SelectSeq(h.kept, In)),
                 budgetHundredths |->
                    IF c.period = "weekly" /\ period = "month"
                    THEN c.weeklyBudget * 433 ELSE c.weeklyBudget * 100]
    IN  IF fc.name = "log_transaction"
        THEN [text |-> IF h.request.op = "createRecurring"
                       THEN "Recurring transaction created for 12 months"
                       ELSE "Transaction logged",
              data |-> response.data]
        ELSE IF fc.name = "delete_transaction"
        THEN [text |-> "Transaction deleted", data |-> <<>>]
        ELSE IF fc.name = "get_spending_summary"
        THEN [text |-> "Period",
              data |-> [startDate |-> h.request.query.startDate,
                        endDate |-> h.request.query.endDate,
                        total |-> total, fixed |-> fixed, variable |-> total - fixed]]
        ELSE IF fc.name = "get_budget_status"
        THEN [text |-> "Budget status",
              data |-> [period |-> period,
                        status |-> [k \in 1..Len(cats) |-> Status(cats[k])]]]
        ELSE IF fc.name = "update_balance"
        THEN [text |-> "Balances updated", data |-> response.data]
        ELSE [text |-> "", data |-> response.data]

\* Mutant of FunctionResponse: the response does not carry the call's id.
FunctionResponseWithoutId(fc, result) ==
    [id |-> NULL, name |-> fc.name, response |-> result]

\* { id: fc.id, name: fc.name, response: { result } }
FunctionResponse(fc, result) ==
    [id |-> fc.id, name |-> fc.name, response |-> result]

\* session.sendToolResponse(...) with the result of the call in progress.
SendToolResponse(h, result) ==
    [h EXCEPT !.sent = Append(@, FunctionResponse(h.calls[h.i], result)),
              !.i = @ + 1, !.pc = "loop", !.request = [op |-> "none"], !.kept = <<>>]

\* catch (err): console.error, return `Error: ${err}`.
Catch(h) ==
    SendToolResponse([h EXCEPT !.errors = Append(@, h.i)],
                     [text |-> "Error", data |-> <<>>])

\* The loop from call i up to its next fetch, or its end: a call without a
\* name is skipped; an unknown name and a TypeError on args are answered at
\* once (handleToolCall returns without waiting for anything, so no other
\* task runs in between).
RECURSIVE Loop(_)
Loop(h) ==
    IF h.i > Len(h.calls) THEN h
    ELSE LET fc == h.calls[h.i]
         IN  IF ~(Has(fc, "name") /\ Truthy(fc.name))
             THEN Loop([h EXCEPT !.i = @ + 1])
             ELSE IF fc.name \notin ToolNames
             THEN Loop(SendToolResponse(h, [text |-> "Unknown tool", data |-> fc.name]))
             ELSE IF fc.name \in ReadsArgs /\ ~Has(fc, "args")
             THEN Loop(Catch(h))
             ELSE h

\* onmessage is called with a message carrying toolCall.functionCalls (the
\* server gives every function call an id of its own: no message comes
\* twice).
OnMessage(calls) ==
    /\ \A k \in 1..Len(tools) : tools[k].calls # calls
    /\ ToolStep(Append(tools, Loop([calls |-> calls, i |-> 1, pc |-> "loop", seq |-> 0,
                                    request |-> [op |-> "none"], kept |-> <<>>,
                                    sent |-> <<>>, errors |-> <<>>])))

\* The server handles one request at a time: a handler's fetch is sent when
\* no other handler waits for a response.
NoFetchPending == \A k \in 1..Len(tools) : tools[k].pc # "awaiting"

\* The case of a known tool up to its first await: the fetch is sent.
ToolBegin(m, now) ==
    LET h == tools[m]
    IN  /\ h.pc = "loop"
        /\ h.i <= Len(h.calls)
        /\ nreq < MaxRequests
        /\ NoFetchPending
        /\ ToolStep([tools EXCEPT ![m] =
                        [@ EXCEPT !.pc = "awaiting", !.seq = nreq + 1,
                                  !.request = ToolRequest(h.calls[h.i], now)]])

\* The server handles the request a handler is waiting for.
ToolServed ==
    \E m \in 1..Len(tools) :
        LET h == tools[m]
            r == h.request
        IN  /\ h.pc = "awaiting"
            /\ h.seq = nreq + 1
            /\ \/ r.op = "create" /\ CreateTransaction(r.body)
               \/ r.op = "createRecurring" /\ CreateRecurring(r.body)
               \/ r.op = "list" /\ ListTransactions(r.query)
               \/ r.op = "delete" /\ DeleteTransaction(r.id)
               \/ r.op = "listCategories" /\ ListCategories
               \/ r.op = "getSettings" /\ GetSettings
               \/ r.op = "putSettings" /\ PutSettings(r.body)

\* fetch or res.json() rejects (the network fails, before or after the
\* server handled the request): the catch block builds the result, the
\* response is sent and the loop goes on.
FetchThrows(m) ==
    /\ tools[m].pc = "awaiting"
    /\ ToolStep([tools EXCEPT ![m] = Loop(Catch(@))])

\* The response arrived: get_budget_status keeps the transactions and waits
\* for the categories (Promise.all of two reads); every other case builds
\* its result, which is sent, and the loop goes on.
ToolReturns(m) ==
    LET h == tools[m]
        fc == h.calls[h.i]
    IN  /\ h.pc = "awaiting"
        /\ h.seq = nreq
        /\ IF fc.name = "get_budget_status" /\ h.request.op = "list"
           THEN /\ nreq < MaxRequests
                /\ ToolStep([tools EXCEPT ![m] =
                                [@ EXCEPT !.seq = nreq + 1,
                                          !.request = [op |-> "listCategories"],
                                          !.kept = resp.data]])
           ELSE ToolStep([tools EXCEPT ![m] =
                            Loop(SendToolResponse(@, ToolResult(fc, h, resp)))])

(***************************************************************************)
(* The settings modal (SettingsModal).  Its state: the categories prop it  *)
(* was opened with, localSettings, localCategories, pendingNewCategories   *)
(* and deletedCategoryIds; calls is the sequence of mutation calls that    *)
(* handleSave made.  crypto.randomUUID() of the browser is "n1", "n2", ... *)
(* and the random colour of a new category is one fixed colour.            *)
(***************************************************************************)
ModalOpened(props, st) ==
    [categories |-> props, localSettings |-> st, localCategories |-> props,
     pendingNewCategories |-> <<>>, deletedCategoryIds |-> <<>>,
     added |-> 0, calls |-> <<>>, saved |-> FALSE]

ModalStep(next) ==
    /\ ~modal.saved
    /\ modal' = next
    /\ UNCHANGED <<serverVars, inflight, call, cache, mutations, agent, tools, stats>>

\* addCategory: the new category goes to localCategories and to
\* pendingNewCategories.
AddCategory ==
    LET newCat == [id |-> "n" \o ToString(modal.added + 1), name |-> "New Category",
                   weeklyBudget |-> 0, period |-> "weekly",
                   color |-> <<"#", "0", "a", "0", "b", "0", "c">>]
    IN  /\ modal.added < MaxAdded
        /\ ModalStep([modal EXCEPT
                        !.localCategories = Append(@, newCat),
                        !.pendingNewCategories = Append(@, newCat),
                        !.added = @ + 1])

\* updateCategory(id, updates): localCategories.map(c => c.id === id ?
\* { ...c, ...updates } : c); pendingNewCategories is not touched.
UpdateLocalCategory(id, updates) ==
    LET Edited(c) == IF c.id = id THEN updates @@ c ELSE c
    IN  ModalStep([modal EXCEPT
                    !.localCategories = [k \in 1..Len(@) |-> Edited(@[k])]])

\* deleteCategory(id): the category leaves localCategories and
\* pendingNewCategories; its id is noted if it is one of the props.
DeleteLocalCategory(id) ==
    LET Other(c) == c.id # id
    IN  ModalStep([modal EXCEPT
                    !.localCategories = SelectSeq(@, Other),
                    !.pendingNewCategories = SelectSeq(@, Other),
                    !.deletedCategoryIds =
                        IF ById(modal.categories, id) # {} THEN Append(@, id) ELSE @])

\* The name, budget, period and colour of a category, as the create and
\* update calls send them.
CategoryData(cat) ==
    [name |-> cat.name, weeklyBudget |-> cat.weeklyBudget, period |-> cat.period,
     color |-> cat.color]

\* handleSave: the calls after the settings update, in order: a delete per
\* deletedCategoryIds, a create per pendingNewCategories, an update per
\* local category that is neither pending nor deleted and differs from its
\* original in one of the four fields.
SaveCalls(m) ==
    LET Changed(cat) ==
            /\ ById(m.pendingNewCategories, cat.id) = {}
            /\ \A k \in 1..Len(m.deletedCategoryIds) : m.deletedCategoryIds[k] # cat.id
            /\ \E k \in ById(m.categories, cat.id) :
                    CategoryData(m.categories[k]) # CategoryData(cat)
        changed == SelectSeq(m.localCategories, Changed)
    IN  [k \in 1..Len(m.deletedCategoryIds) |->
            [kind |-> "delete", id |-> m.deletedCategoryIds[k], data |-> <<>>]]
        \o [k \in 1..Len(m.pendingNewCategories) |->
            [kind |-> "create", id |-> NULL,
             data |-> CategoryData(m.pendingNewCategories[k])]]
        \o [k \in 1..Len(changed) |->
            [kind |-> "update", id |-> changed[k].id, data |-> CategoryData(changed[k])]]

\* The categories table after the calls (each is accepted: the bodies of the
\* model are valid and the ids exist); u counts the UUIDs handed out.
RECURSIVE CategoriesAfter(_, _, _)
CategoriesAfter(table, calls, u) ==
    IF calls = <<>> THEN table
    ELSE LET c == Head(calls)
             Updated(row) == IF row.id = c.id THEN SetColumns(row, c.data) ELSE row
         IN  IF c.kind = "delete"
             THEN CategoriesAfter(Without(table, {c.id}), Tail(calls), u)
             ELSE IF c.kind = "create"
             THEN CategoriesAfter(Append(table, [id |-> Uuid(u + 1)] @@ c.data),
                                  Tail(calls), u + 1)
             ELSE CategoriesAfter([k \in 1..Len(table) |-> Updated(table[k])],
                                  Tail(calls), u)

\* handleSave, every mutation succeeding: the settings update, then the
\* calls; the modal closes.
HandleSave ==
    LET calls == SaveCalls(modal)
        creates == Len(modal.pendingNewCategories)
    IN  /\ ~modal.saved
        /\ modal' = [modal EXCEPT !.calls = calls, !.saved = TRUE]
        /\ settings' = SettingsAfterPut(settings, modal.localSettings)
        /\ categories' = CategoriesAfter(categories, calls, uuids)
        /\ uuids' = uuids + creates
        /\ UNCHANGED <<tz, transactions, nreq, req, resp, before, beforeCategories,
                       beforeSettings, inflight, call, cache, mutations, agent, tools,
                       stats>>

(***************************************************************************)
(* The dashboard's statistics (financialStats of AppContent).  A           *)
(* JavaScript number is an IEEE 754 double: a sum or a difference is the   *)
(* exact result rounded to the nearest number with 53 significant bits,    *)
(* ties to even.  The model keeps the rule on a significand of Precision   *)
(* bits (TLC's integers have 32 bits); a number is an integer count of the *)
(* smallest unit.  stats holds what the memo depends on (transactions,     *)
(* monthlyIncome, showFixedCosts; the month shown and the clock are fixed),*)
(* its value, and shown, the 'Monthly Remaining' values rendered so far.   *)
(***************************************************************************)
Precision == 3

RECURSIVE Pow2(_)
Pow2(k) == IF k = 0 THEN 1 ELSE 2 * Pow2(k - 1)

\* Round to nearest, ties to even, of a magnitude.
RoundMagnitude(n) ==
    LET e == CHOOSE k \in 0..16 :
                /\ n \div Pow2(k) < Pow2(Precision)
                /\ k > 0 => n \div Pow2(k - 1) >= Pow2(Precision)
        q == Pow2(e)
        down == (n \div q) * q
        rest == n - down
    IN  IF 2 * rest < q THEN down
        ELSE IF 2 * rest > q THEN down + q
        ELSE IF (n \div q) % 2 = 0 THEN down ELSE down + q

\* The number nearest to the exact value n.
Number(n) == IF n < 0 THEN 0 - RoundMagnitude(0 - n) ELSE RoundMagnitude(n)

\* a + b and a - b of two numbers.
Plus(a, b) == Number(a + b)
Minus(a, b) == Number(a - b)

\* txs.reduce((sum, tx) => sum + tx.amount, sum)
RECURSIVE Reduce(_, _)
Reduce(txs, sum) ==
    IF txs = <<>> THEN sum ELSE Reduce(Tail(txs), Plus(sum, Head(txs).amount))

\* date.toLocaleDateString('en-CA'): the local calendar date, YYYY-MM-DD.
ToLocaleDateString(date) == DateString(date.y, date.m + 1, date.d)

\* (tx.isFixed || tx.categoryId === 'fixed') && tx.type === 'expense'
IsFixedCost(tx) == (tx.isFixed \/ tx.categoryId = "fixed") /\ tx.type = "expense"

\* financialStats: currentDate is the month shown, d is new Date(), both as
\* local fields (d with day = getDay()).
FinancialStats(txs, monthlyIncome, showFixedCosts, currentDate, d) ==
    LET startOfMonth == ToLocaleDateString(NewDate(currentDate.y, currentDate.m, 1))
        endOfMonth == ToLocaleDateString(NewDate(currentDate.y, currentDate.m + 1, 0))
        diff == d.d - d.day + (IF d.day = 0 THEN 0 - 6 ELSE 1)
        startOfWeek == ToLocaleDateString(NewDate(d.y, d.m, diff))
        endOfWeek == ToLocaleDateString(NewDate(d.y, d.m, diff + 6))
        InMonth(tx) == tx.date >= startOfMonth /\ tx.date <= endOfMonth
        monthTxs == SelectSeq(txs, InMonth)
        monthFixedCosts == Reduce(SelectSeq(monthTxs, IsFixedCost), 0)
        effectiveIncome == IF showFixedCosts THEN monthlyIncome
                           ELSE Minus(monthlyIncome, monthFixedCosts)
        NotFixed(tx) == ~tx.isFixed /\ tx.categoryId # "fixed"
        filteredMonthTxs == IF showFixedCosts THEN monthTxs
                            ELSE SelectSeq(monthTxs, NotFixed)
        InWeek(tx) == /\ tx.date >= startOfWeek
                      /\ tx.date <= endOfWeek
                      /\ ~tx.isFixed
                      /\ tx.categoryId # "fixed"
                      /\ tx.type = "expense"
        IsExpense(tx) == tx.type = "expense"
        monthSpent == Reduce(SelectSeq(filteredMonthTxs, IsExpense), 0)
        weekSpent == Reduce(SelectSeq(txs, InWeek), 0)
    IN  [monthSpent |-> monthSpent, weekSpent |-> weekSpent,
         remaining |-> Minus(effectiveIncome, monthSpent),
         effectiveIncome |-> effectiveIncome, monthFixedCosts |-> monthFixedCosts]

\* The month shown (January 2025) and new Date() (Thursday 2025-01-30).
ShownMonth == [y |-> 2025, m |-> 0]
Today == [y |-> 2025, m |-> 0, d |-> 30, day |-> 4]

\* The dashboard rendered on a transaction list and settings.
Rendered(txs, monthlyIncome, showFixedCosts, shown) ==
    LET value == FinancialStats(txs, monthlyIncome, showFixedCosts, ShownMonth, Today)
    IN  [transactions |-> txs, monthlyIncome |-> monthlyIncome,
         showFixedCosts |-> showFixedCosts, financialStats |-> value,
         shown |-> shown \cup {value.remaining}]

\* handleToggleFixedCosts: the mutation flips showFixedCosts (its optimistic
\* update is what currentSettings shows) and the memo is computed again.
HandleToggleFixedCosts ==
    /\ stats' = Rendered(stats.transactions, stats.monthlyIncome,
                         ~stats.showFixedCosts, stats.shown)
    /\ UNCHANGED <<serverVars, inflight, call, cache, mutations, agent, tools, modal>>

(***************************************************************************)
(* Requests the model sends.                                               *)
(***************************************************************************)
TZOffsets == {0 - 5, 0, 1}

Draft ==
    [date |-> 20250131, amount |-> 1200, categoryId |-> "fixed",
     description |-> "rent", type |-> "expense"]

GroupIds(store) == {store[k].groupId : k \in 1..Len(store)} \ {NULL}

\* Bodies of POST /transactions: a plain one-off, one flagged fixed, one that
\* names a group, one with an empty categoryId, one that fails validation.
CreateBodies ==
    {Draft, [isFixed |-> TRUE] @@ Draft, [Draft EXCEPT !.amount = 0],
     [Draft EXCEPT !.categoryId = "", !.date = 20250315]}
    \cup {[groupId |-> g] @@ Draft : g \in GroupIds(transactions)}

LogParams == {Draft, [isFixed |-> TRUE] @@ Draft}

\* Bases of POST /transactions/recurring: a 31st; a year's end that carries
\* isFixed = false, a groupId of its own and an empty categoryId; and a date
\* string that is no calendar date.  The bodies ask for 1 or 3 months, or
\* leave months out (a 15th, twelve rows), or ask for 0 months.
RecurringBases ==
    {Draft,
     [isFixed |-> FALSE, groupId |-> "mine"]
        @@ [Draft EXCEPT !.categoryId = "", !.date = 20241231],
     [Draft EXCEPT !.date = 20251301]}

RecurringBodies ==
    {[base |-> b, months |-> n] : b \in RecurringBases, n \in {1, 3}}
    \cup {[base |-> [Draft EXCEPT !.date = 20250115]], [base |-> Draft, months |-> 0]}

Patches ==
    {[amount |-> 50, date |-> 20250601, description |-> "gym"],
     [isFixed |-> FALSE, groupId |-> NULL]}

FromDates == {20250215, 20250715}

GroupUpdateBodies ==
    {[updates |-> p, scope |-> "all"] : p \in Patches}
    \cup {[updates |-> p, scope |-> "future", fromDate |-> 20250215] : p \in Patches}
    \cup {[updates |-> p, scope |-> "future"] : p \in Patches}
    \cup {[updates |-> [amount |-> 0], scope |-> "all"]}

GroupDeleteQueries ==
    {<<>>, [scope |-> "all"], [scope |-> "future"]}
    \cup {[scope |-> "future", fromDate |-> d] : d \in FromDates}

\* Path parameters: the first UUIDs handed out (rows or groups, as the run
\* has it) and one that names nothing.
PathIds == {Uuid(1), Uuid(2), "missing"}

PathGroupIds == {Uuid(1), "missing"}

(***************************************************************************)
(* The web client before any of its components is used.                    *)
(***************************************************************************)
UiInit ==
    /\ cache = [data |-> <<>>, fetching |-> FALSE]
    /\ mutations = <<>>
    /\ agent = AgentIdle
    /\ tools = ToolsIdle
    /\ modal = ModalOpened(<<>>, DefaultSettings)
    /\ stats = <<>>

(***************************************************************************)
(* The server under any sequence of requests.                              *)
(***************************************************************************)
Init ==
    /\ tz \in TZOffsets
    /\ transactions = <<>>
    /\ uuids = 0
    /\ nreq = 0
    /\ req = [op |-> "none"]
    /\ resp = Ok(200, <<>>)
    /\ before = <<>>
    /\ categories = <<>>
    /\ settings = <<DefaultSettings>>
    /\ beforeCategories = <<>>
    /\ beforeSettings = settings
    /\ inflight = <<>>
    /\ call = [seq |-> 0]
    /\ UiInit

Next ==
    \/ \E body \in CreateBodies : CreateTransaction(body)
    \/ \E params \in LogParams : LogTransaction(params)
    \/ \E body \in RecurringBodies : CreateRecurring(body)
    \/ \E id \in PathIds, body \in Patches \cup {[amount |-> 0]} : UpdateTransaction(id, body)
    \/ \E groupId \in PathGroupIds, body \in GroupUpdateBodies : UpdateGroup(groupId, body)
    \/ \E id \in PathIds : DeleteTransaction(id)
    \/ \E groupId \in PathGroupIds, query \in GroupDeleteQueries : DeleteGroup(groupId, query)

Spec == Init /\ [][Next]_vars

(***************************************************************************)
(* The recurrence generator alone: one POST /transactions/recurring on the *)
(* empty store, for every date string of 2024 that the schema and the Date *)
(* parser accept (2024-02-30 and the like carry into the next month), some *)
(* dates of 2025, and every months 1..24.                                  *)
(***************************************************************************)
GenDates ==
    {DateString(2024, m, d) : m \in 1..12, d \in 1..31}
    \cup {20250115, 20250131, 20250230, 20251301}

GenBases ==
    {[Draft EXCEPT !.date = s] : s \in GenDates}
    \cup {[isFixed |-> FALSE, groupId |-> "mine"] @@ [Draft EXCEPT !.categoryId = ""],
          [isFixed |-> FALSE, categoryId |-> NULL] @@ Draft}

GenBodies == {[base |-> b, months |-> n] : b \in GenBases, n \in 1..MaxMonths}

NextGen == \E body \in GenBodies : transactions = <<>> /\ nreq = 0 /\ CreateRecurring(body)

SpecGen == Init /\ [][NextGen]_vars

(***************************************************************************)
(* The whole store: every route that writes a table or answers for one    *)
(* row, import and export, on a database file that the migration script    *)
(* prepared (default settings row) or whose tables were created without it *)
(* (no settings row).                                                      *)
(***************************************************************************)
Food ==
    [id |-> "food", name |-> "Food", weeklyBudget |-> 800, period |-> "weekly",
     color |-> <<"#", "1", "0", "b", "9", "8", "1">>]

Lunch ==
    [id |-> "t1", date |-> 20250105, amount |-> 30, categoryId |-> "food",
     description |-> "lunch", type |-> "expense"]

\* Payloads of POST /migrate/import, as a localStorage export has them.
\* PayloadA names the category food and the transaction t1 twice, with
\* different content, and holds a transaction with a negative amount, an
\* empty description and a date that is no calendar date; PayloadB names
\* food and t1 again with other content.
PayloadA ==
    [categories |-> <<Food, [Food EXCEPT !.name = "Groceries"]>>,
     transactions |->
        <<Lunch, [Lunch EXCEPT !.amount = 45],
          [isFixed |-> TRUE, groupId |-> "g1"]
            @@ [id |-> "t2", date |-> 20251301, amount |-> 0 - 5, categoryId |-> "",
                description |-> "", type |-> "income"]>>,
     settings |-> [monthlyIncome |-> 5000, currency |-> "EUR", showFixedCosts |-> FALSE]]

PayloadB ==
    [categories |-> <<[Food EXCEPT !.weeklyBudget = 100]>>,
     transactions |-> <<[Lunch EXCEPT !.amount = 99, !.date = 20250106]>>,
     settings |-> [monthlyIncome |-> 1, currency |-> "$", showFixedCosts |-> TRUE,
                   checkingBalance |-> 250, balanceAsOf |-> "2025-01-01T00:00:00.000Z"]]

\* The data of the export the client received last, posted back.
LastExport == IF req.op = "export" THEN {resp.data} ELSE {}

CategoryDraft ==
    [name |-> "Misc", weeklyBudget |-> 200, period |-> "weekly",
     color |-> <<"#", "6", "3", "6", "6", "f", "1">>]

\* Patches that also carry an id, which no update schema names.
PatchWithId == [id |-> "other", amount |-> 50]

CategoryPatchWithId == [id |-> "other", weeklyBudget |-> 50]

\* Path parameters of the single-row routes.
ApiIds == {Uuid(1), Uuid(2), "missing"}

ApiGroupIds == {Uuid(1), "missing"}

\* Bodies, one that passes validation and at least one that fails it; the
\* third transaction is dated 2025-02-30.
ApiCreateBodies ==
    {Draft, [Draft EXCEPT !.amount = 0], [Draft EXCEPT !.date = 20250230]}

\* months 2, no months, and months 0, 25, -1 and 2.5
ApiRecurringBodies ==
    {[base |-> [Draft EXCEPT !.date = 20250115], months |-> 2],
     [base |-> Draft],
     [base |-> Draft, months |-> 2, monthsTenths |-> 5]}
    \cup {[base |-> Draft, months |-> n] : n \in {0, MaxMonths + 1, 0 - 1}}

ApiPatches == {PatchWithId, [amount |-> 0]}

ApiGroupUpdateBodies ==
    {[updates |-> PatchWithId, scope |-> "all"],
     [updates |-> [description |-> ""], scope |-> "all"],
     [updates |-> PatchWithId, scope |-> "past"]}

ApiCategoryBodies ==
    {CategoryDraft, [CategoryDraft EXCEPT !.color = <<"r", "e", "d">>]}

ApiCategoryPatches == {CategoryPatchWithId, [period |-> "yearly"]}

ApiSettingsBodies ==
    {[id |-> 2, monthlyIncome |-> 9000, currency |-> "EUR"],
     [monthlyIncome |-> 0 - 1]}

ApiImportBodies ==
    {PayloadA, PayloadB, [categories |-> <<>>, transactions |-> <<>>]}

InitApi ==
    /\ tz = 0
    /\ transactions = <<>>
    /\ uuids = 0
    /\ nreq = 0
    /\ req = [op |-> "none"]
    /\ resp = Ok(200, <<>>)
    /\ before = <<>>
    /\ categories = <<>>
    /\ settings \in {<<>>, <<DefaultSettings>>}
    /\ beforeCategories = <<>>
    /\ beforeSettings = settings
    /\ inflight = <<>>
    /\ call = [seq |-> 0]
    /\ UiInit

NextApi ==
    \/ \E body \in ApiCreateBodies : CreateTransaction(body)
    \/ \E body \in ApiRecurringBodies : CreateRecurring(body)
    \/ \E id \in ApiIds : GetTransaction(id)
    \/ \E id \in ApiIds, body \in ApiPatches : UpdateTransaction(id, body)
    \/ \E groupId \in ApiGroupIds, body \in ApiGroupUpdateBodies : UpdateGroup(groupId, body)
    \/ \E id \in ApiIds : DeleteTransaction(id)
    \/ \E groupId \in ApiGroupIds : DeleteGroup(groupId, <<>>)
    \/ ListCategories
    \/ \E id \in ApiIds : GetCategory(id)
    \/ \E body \in ApiCategoryBodies : CreateCategory(body)
    \/ \E id \in ApiIds, body \in ApiCategoryPatches : UpdateCategory(id, body)
    \/ \E id \in ApiIds : DeleteCategory(id)
    \/ GetSettings
    \/ \E body \in ApiSettingsBodies : PutSettings(body)
    \/ Export
    \/ \E body \in ApiImportBodies \cup LastExport : Import(body)

SpecApi == InitApi /\ [][NextApi]_vars

(***************************************************************************)
(* Listing: GET /transactions with every combination of the five query     *)
(* parameters, over stores that differ in date, category, type and fixed   *)
(* flag.                                                                   *)
(***************************************************************************)
ListCreateBodies ==
    {Draft,
     [isFixed |-> TRUE]
        @@ [Draft EXCEPT !.date = 20250315, !.categoryId = "food", !.type = "income"],
     [date |-> 20250215, amount |-> 75, description |-> "card", type |-> "cc_payment"]}

ListRecurringBodies ==
    {[base |-> [Draft EXCEPT !.date = 20250215, !.categoryId = "food"], months |-> 2]}

\* A record with the property f for every value of vs, and without it.
WithOptional(rs, f, vs) ==
    rs \cup {[g \in (DOMAIN r) \cup {f} |-> IF g = f THEN v ELSE r[g]] : r \in rs, v \in vs}

ListQueries ==
    WithOptional(
      WithOptional(
        WithOptional(
          WithOptional(
            WithOptional({<<>>}, "startDate", {20250215}),
            "endDate", {20250315}),
          "categoryId", {"food", ""}),
        "type", {"income", "bogus"}),
      "isFixed", {"true", "false", "1"})

NextList ==
    \/ \E body \in ListCreateBodies : CreateTransaction(body)
    \/ \E body \in ListRecurringBodies : CreateRecurring(body)
    \/ UpdateTransaction(Uuid(1), [categoryId |-> ""])
    \/ \E query \in ListQueries : ListTransactions(query)

SpecList == Init /\ [][NextList]_vars

(***************************************************************************)
(* The row-by-row loops under persistence failures: recurring creates and  *)
(* group requests that run to the end or fail at any one of their steps.   *)
(***************************************************************************)
FaultRecurringBodies ==
    {[base |-> Draft, months |-> 3],
     [base |-> [Draft EXCEPT !.date = 20250215, !.description = "gym"], months |-> 2]}

FaultGroupUpdateBodies ==
    {[updates |-> [amount |-> 50], scope |-> "all"],
     [updates |-> [description |-> "club"], scope |-> "future", fromDate |-> 20250215]}

FaultGroupDeleteQueries == {[scope |-> "future", fromDate |-> 20250215]}

\* The steps a loop of the model can fail at.
FaultSteps == 1..3

FaultGroupIds == {Uuid(1), Uuid(2)}

NextFault ==
    \/ \E body \in FaultRecurringBodies : CreateRecurring(body)
    \/ \E body \in FaultRecurringBodies, k \in FaultSteps : CreateRecurringFailing(body, k)
    \/ \E groupId \in FaultGroupIds, body \in FaultGroupUpdateBodies, k \in FaultSteps :
            UpdateGroupFailing(groupId, body, k)
    \/ \E groupId \in FaultGroupIds, query \in FaultGroupDeleteQueries, k \in FaultSteps :
            DeleteGroupFailing(groupId, query, k)

SpecFault == Init /\ [][NextFault]_vars

(***************************************************************************)
(* Concurrent requests on one group and on the settings row: the store     *)
(* holds the three rows of one recurring create (the 15th of January,      *)
(* February and March 2025) and no settings row (the database file was     *)
(* created without the migration script's defaults); group updates, group  *)
(* deletes and GET /settings arrive in any number up to MaxInflight and in *)
(* any order, and the event loop runs their handlers.                      *)
(***************************************************************************)
ConcGroup ==
    CreatedTransactions(TransactionSchemaData([Draft EXCEPT !.date = 20250115]), 3, 0)

ConcGroupId == Uuid(1)

ConcRequests ==
    {[op |-> "updateGroup", groupId |-> ConcGroupId,
      body |-> [updates |-> [amount |-> 50], scope |-> "all"]],
     [op |-> "updateGroup", groupId |-> ConcGroupId,
      body |-> [updates |-> [amount |-> 60, description |-> "club"],
                scope |-> "future", fromDate |-> 20250215]],
     [op |-> "deleteGroup", groupId |-> ConcGroupId,
      query |-> [scope |-> "future", fromDate |-> 20250215]],
     [op |-> "deleteGroup", groupId |-> ConcGroupId, query |-> [scope |-> "all"]],
     [op |-> "getSettings"]}

InitConc ==
    /\ tz = 0
    /\ transactions = ConcGroup
    /\ uuids = 4
    /\ nreq = 0
    /\ req = [op |-> "none"]
    /\ resp = Ok(200, <<>>)
    /\ before = <<>>
    /\ categories = <<>>
    /\ settings = <<>>
    /\ beforeCategories = <<>>
    /\ beforeSettings = <<>>
    /\ inflight = <<>>
    /\ call = [seq |-> 0]
    /\ UiInit

NextConc ==
    \/ \E request \in ConcRequests : Arrive(request)
    \/ \E k \in 1..Len(inflight) : BeginTask(k)
    \/ \E k \in 1..Len(inflight) : StepTask(k)

SpecConc == InitConc /\ [][NextConc]_vars

(***************************************************************************)
(* The web client editing and deleting transactions: a store filled by a   *)
(* single create and a recurring create of three, then edits and deletes   *)
(* through the modal with every recurrence choice.                         *)
(***************************************************************************)
\* The recurrence argument: undefined (the row is not fixed, no prompt), or
\* the button pressed in the prompt.
RecurrenceChoices == {NULL, "one", "future", "all"}

HookForms ==
    {[amount |-> 50, description |-> "gym", categoryId |-> "fixed",
      date |-> 20250601, type |-> "expense", isFixed |-> TRUE]}

HookCreateBodies == {[Draft EXCEPT !.date = 20250220, !.description = "lunch"]}

HookRecurringBodies == {[base |-> [Draft EXCEPT !.date = 20250115], months |-> 3]}

HookIds == {Uuid(1), Uuid(3), Uuid(4), "missing"}

NextHooks ==
    \/ \E body \in HookCreateBodies :
            call.seq # nreq + 1 /\ Len(transactions) < 4 /\ CreateTransaction(body)
    \/ \E body \in HookRecurringBodies :
            call.seq # nreq + 1 /\ GroupIds(transactions) = {} /\ CreateRecurring(body)
    \/ \E k \in 1..Len(transactions), form \in HookForms, recurrence \in RecurrenceChoices :
            HandleTransactionSubmit(k, form, recurrence)
    \/ \E id \in HookIds, recurrence \in RecurrenceChoices :
            HandleTransactionDelete(id, recurrence)
    \/ UpdateMutationFn
    \/ DeleteMutationFn

SpecHooks == Init /\ [][NextHooks]_vars

(***************************************************************************)
(* Group deletes with every shape of query string: scope missing, 'all',   *)
(* 'future', and values the route does not name ('one', the empty string), *)
(* each with and without fromDate.  The route declares no querystring      *)
(* schema, so every value reaches the handler.                             *)
(***************************************************************************)
ScopeRecurringBodies ==
    {[base |-> [Draft EXCEPT !.date = 20250115], months |-> 3],
     [base |-> [Draft EXCEPT !.date = 20250131, !.description = "gym"], months |-> 2]}

ScopeQueries ==
    LET scopes == {[scope |-> v] : v \in {"all", "future", "one", ""}} \cup {<<>>}
    IN  scopes \cup {[fromDate |-> 20250215] @@ q : q \in scopes}

ScopeGroupIds == {Uuid(1), Uuid(5), "missing"}

NextScope ==
    \/ \E body \in ScopeRecurringBodies : CreateRecurring(body)
    \/ \E groupId \in ScopeGroupIds, query \in ScopeQueries : DeleteGroup(groupId, query)

SpecScope == Init /\ [][NextScope]_vars

(***************************************************************************)
(* The settings cache of the web client: the query is fetched when the     *)
(* application mounts; the fixed-costs toggle and the balance form start   *)
(* mutations, which may overlap, fail or succeed in any order.             *)
(***************************************************************************)
SettingsMutations ==
    {[showFixedCosts |-> FALSE], [monthlyIncome |-> 5000],
     [checkingBalance |-> 300, creditCardBalance |-> 40]}

InitCache ==
    /\ tz = 0
    /\ transactions = <<>>
    /\ uuids = 0
    /\ nreq = 0
    /\ req = [op |-> "none"]
    /\ resp = Ok(200, <<>>)
    /\ before = <<>>
    /\ categories = <<>>
    /\ settings = <<DefaultSettings>>
    /\ beforeCategories = <<>>
    /\ beforeSettings = settings
    /\ inflight = <<>>
    /\ call = [seq |-> 0]
    /\ cache = [data |-> <<>>, fetching |-> TRUE]
    /\ mutations = <<>>
    /\ agent = AgentIdle
    /\ tools = ToolsIdle
    /\ modal = ModalOpened(<<>>, DefaultSettings)
    /\ stats = <<>>

NextCache ==
    \/ SettingsFetched
    \/ SettingsFetchFails
    \/ \E data \in SettingsMutations : Mutate(data)
    \/ \E k \in 1..Len(mutations) : OnMutate(k)
    \/ \E k \in 1..Len(mutations) : MutationFails(k)
    \/ \E k \in 1..Len(mutations) : MutationSucceeds(k)

SpecCache == InitCache /\ [][NextCache]_vars

(***************************************************************************)
(* The voice agent's overlay: sessions are started (on open, or with the   *)
(* button) and stopped at any moment.                                      *)
(***************************************************************************)
NextAgent ==
    \/ StartSession
    \/ \E r \in 1..Len(agent.runs) : MediaGranted(r)
    \/ \E r \in 1..Len(agent.runs) : MediaDenied(r)
    \/ \E r \in 1..Len(agent.runs), created \in BOOLEAN : OnOpen(r, created)
    \/ \E r \in 1..Len(agent.runs) : Connected(r)
    \/ \E r \in 1..Len(agent.runs) : ConnectFails(r)
    \/ StopSession

SpecAgent == Init /\ [][NextAgent]_vars

(***************************************************************************)
(* The settings modal, opened on the seeded categories: categories are     *)
(* added, edited and removed in any order, then the modal is saved.        *)
(***************************************************************************)
SeededCategories ==
    <<[id |-> "groceries", name |-> "Groceries", weeklyBudget |-> 800,
       period |-> "weekly", color |-> <<"#", "1", "0", "b", "9", "8", "1">>],
      [id |-> "misc", name |-> "Misc", weeklyBudget |-> 200,
       period |-> "weekly", color |-> <<"#", "6", "3", "6", "6", "f", "1">>]>>

ModalEdits == {[name |-> "Coffee"], [weeklyBudget |-> 50], [weeklyBudget |-> 800]}

InitModal ==
    /\ tz = 0
    /\ transactions = <<>>
    /\ uuids = 0
    /\ nreq = 0
    /\ req = [op |-> "none"]
    /\ resp = Ok(200, <<>>)
    /\ before = <<>>
    /\ categories = SeededCategories
    /\ settings = <<DefaultSettings>>
    /\ beforeCategories = categories
    /\ beforeSettings = settings
    /\ inflight = <<>>
    /\ call = [seq |-> 0]
    /\ cache = [data |-> <<>>, fetching |-> FALSE]
    /\ mutations = <<>>
    /\ agent = AgentIdle
    /\ tools = ToolsIdle
    /\ modal = ModalOpened(SeededCategories, DefaultSettings)
    /\ stats = <<>>

NextModal ==
    \/ AddCategory
    \/ \E id \in Ids(modal.localCategories), updates \in ModalEdits :
            UpdateLocalCategory(id, updates)
    \/ \E id \in Ids(modal.localCategories) : DeleteLocalCategory(id)
    \/ HandleSave

SpecModal == InitModal /\ [][NextModal]_vars

(***************************************************************************)
(* The voice agent's tool calls: messages arrive, their handlers run and   *)
(* interleave, requests are served or fail.                                *)
(***************************************************************************)
\* new Date() when a summary is asked for: Thursday 2025-01-30 at 23
\* o'clock.
Nows == {[y |-> 2025, m |-> 0, d |-> 30, day |-> 4, hour |-> 23]}

ToolExpense ==
    [date |-> 20250127, amount |-> 12, categoryId |-> "groceries",
     description |-> "lunch", type |-> "expense"]

ToolMessages ==
    {<<[id |-> "c1", name |-> "log_transaction", args |-> ToolExpense],
       [id |-> "c2"],
       [id |-> "c3", name |-> "transfer_money", args |-> [amount |-> 5]],
       [id |-> "c4", name |-> "get_spending_summary", args |-> [period |-> "week"]],
       [id |-> "c5", name |-> "delete_transaction", args |-> [id |-> "u1"]],
       [id |-> "c6", name |-> "get_settings"]>>,
     <<[id |-> "c7", name |-> "get_budget_status"],
       [id |-> "c8", name |-> "get_budget_status", args |-> [period |-> "month"]],
       [id |-> "c9", name |-> "log_transaction",
        args |-> [isFixed |-> TRUE] @@ [ToolExpense EXCEPT !.categoryId = "fixed"]],
       [id |-> "c10", name |-> "update_balance", args |-> [checkingBalance |-> 100]],
       [id |-> "c11", name |-> "list_categories"],
       [id |-> "c12", name |-> "get_transactions",
        args |-> [type |-> "expense", categoryId |-> ""]]>>}

NextTools ==
    \/ \E calls \in ToolMessages : OnMessage(calls)
    \/ \E m \in 1..Len(tools), now \in Nows : ToolBegin(m, now)
    \/ ToolServed
    \/ \E m \in 1..Len(tools) : FetchThrows(m)
    \/ \E m \in 1..Len(tools) : ToolReturns(m)

InitTools ==
    /\ tz \in TZOffsets
    /\ transactions = <<>>
    /\ uuids = 0
    /\ nreq = 0
    /\ req = [op |-> "none"]
    /\ resp = Ok(200, <<>>)
    /\ before = <<>>
    /\ categories = SeededCategories
    /\ settings = <<DefaultSettings>>
    /\ beforeCategories = categories
    /\ beforeSettings = settings
    /\ inflight = <<>>
    /\ call = [seq |-> 0]
    /\ UiInit

SpecTools == InitTools /\ [][NextTools]_vars

(***************************************************************************)
(* The dashboard rendered on every short transaction list and income, and  *)
(* the fixed-costs toggle switched back and forth.                         *)
(***************************************************************************)
\* The amounts and incomes: numbers (every one is its own rounding).
StatAmounts == {n \in {2, 7} : Number(n) = n}
StatIncomes == {n \in {8, 12, 16} : Number(n) = n}

\* A fixed expense, an expense of the category 'fixed', a variable expense
\* and an income, inside the month shown and outside it.
StatRows ==
    {[date |-> date, amount |-> amount, categoryId |-> kind.categoryId,
      description |-> "x", type |-> kind.type, isFixed |-> kind.isFixed, groupId |-> NULL] :
        date \in {20250128, 20250203}, amount \in StatAmounts,
        kind \in {[categoryId |-> "fixed", type |-> "expense", isFixed |-> TRUE],
                  [categoryId |-> "fixed", type |-> "expense", isFixed |-> FALSE],
                  [categoryId |-> "groceries", type |-> "expense", isFixed |-> FALSE],
                  [categoryId |-> NULL, type |-> "income", isFixed |-> TRUE]}}

StatLists ==
    UNION {{[k \in 1..n |-> [id |-> Uuid(k)] @@ rows[k]] : rows \in [1..n -> StatRows]} :
              n \in 0..MaxListed}

InitStats ==
    /\ tz = 0
    /\ transactions = <<>>
    /\ uuids = 0
    /\ nreq = 0
    /\ req = [op |-> "none"]
    /\ resp = Ok(200, <<>>)
    /\ before = <<>>
    /\ categories = <<>>
    /\ settings = <<DefaultSettings>>
    /\ beforeCategories = <<>>
    /\ beforeSettings = settings
    /\ inflight = <<>>
    /\ call = [seq |-> 0]
    /\ cache = [data |-> <<>>, fetching |-> FALSE]
    /\ mutations = <<>>
    /\ agent = AgentIdle
    /\ tools = ToolsIdle
    /\ modal = ModalOpened(<<>>, DefaultSettings)
    /\ \E txs \in StatLists, monthlyIncome \in StatIncomes, showFixedCosts \in BOOLEAN :
           stats = Rendered(txs, monthlyIncome, showFixedCosts, {})

NextStats == HandleToggleFixedCosts

SpecStats == InitStats /\ [][NextStats]_vars

(***************************************************************************)
(* Properties of the recurrence generator.                                 *)
(***************************************************************************)
\* The last request was a POST /transactions/recurring that meets the
\* generator's preconditions: the body passes recurringRequestSchema and
\* base.date is a calendar date.
ValidRecurring ==
    /\ req.op = "createRecurring"
    /\ RecurringRequestSchemaOk(req.body)
    /\ IsCalendarDate(req.body.base.date)

\* The calendar date the specification gives instance i of a base dated s:
\* month (base month + i) with the year rolling over, day min(d, last day).
ExpectedDate(s, i) ==
    LET mi == Month(s) - 1 + i
        y == Year(s) + (mi \div 12)
        m == (mi % 12) + 1
    IN  DateString(y, m, Min(Day(s), DaysInMonth(y, m)))

\* A property of the request body read as a value: an absent optional
\* property is null.
Sent(r, f) == IF Has(r, f) THEN r[f] ELSE NULL

\* C1: a valid recurring request with months = N answers 201 with exactly N
\* transactions, each with a distinct id, all with one and the same groupId,
\* and exactly those N rows are appended to the store.
C1_RecurringCreatesMonthsRows ==
    ValidRecurring =>
        LET N == RecurringRequestMonths(req.body)
        IN  /\ resp.status = 201 /\ resp.success
            /\ Len(resp.data) = N
            /\ Cardinality(Ids(resp.data)) = N
            /\ \A k \in 1..N : /\ resp.data[k].groupId # NULL
                               /\ resp.data[k].groupId = resp.data[1].groupId
            /\ transactions = before \o resp.data
            /\ Ids(resp.data) \cap Ids(before) = {}

C1_Witness ==
    /\ ValidRecurring
    /\ req.body.months = MaxMonths
    /\ Len(resp.data) = MaxMonths
    /\ Len(transactions) = MaxMonths

\* C2: for every base that is a calendar date with day-of-month d and every
\* i in 0..months-1, instance i is dated in month (base month + i), year
\* rolling over, on day min(d, last day of that month).
C2_DatesAreClampedCalendarMonths ==
    ValidRecurring =>
        \A k \in 1..Len(resp.data) :
            resp.data[k].date = ExpectedDate(req.body.base.date, k - 1)

\* The UUID the last recurring request drew for its group: the one before
\* the UUIDs of its rows.
GeneratedGroupId == Uuid(uuids - Len(resp.data))

\* C7 (as claimed): every generated row has isFixed = true, the groupId
\* generated by the call, and amount, description, type and categoryId
\* equal to those of base.
C7_RowsCopyBaseExactly ==
    (req.op = "createRecurring" /\ resp.success) =>
        \A k \in 1..Len(resp.data) :
            LET t == resp.data[k]
            IN  /\ t.isFixed
                /\ t.groupId = GeneratedGroupId
                /\ t.amount = req.body.base.amount
                /\ t.description = req.body.base.description
                /\ t.type = req.body.base.type
                /\ t.categoryId = Sent(req.body.base, "categoryId")

\* C7 (amended): every generated row has isFixed = true whatever
\* base.isFixed is, the groupId generated by the call (not one of the store
\* before, not the base's), amount, description and type equal to those of
\* base, and categoryId equal to base's except that an empty-string
\* categoryId is stored as null; so all rows of the call agree on the four
\* fields.
C7_RowsCopyBase ==
    (req.op = "createRecurring" /\ resp.success) =>
        \A k \in 1..Len(resp.data) :
            LET t == resp.data[k]
                sent == Sent(req.body.base, "categoryId")
            IN  /\ t.isFixed
                /\ t.groupId = GeneratedGroupId
                /\ t.groupId \notin GroupIds(before)
                /\ t.amount = req.body.base.amount
                /\ t.description = req.body.base.description
                /\ t.type = req.body.base.type
                /\ t.categoryId = (IF sent = "" THEN NULL ELSE sent)
                /\ t.amount = resp.data[1].amount
                /\ t.description = resp.data[1].description
                /\ t.type = resp.data[1].type
                /\ t.categoryId = resp.data[1].categoryId

C7_Witness ==
    /\ req.op = "createRecurring" /\ resp.success
    /\ Has(req.body.base, "isFixed") /\ ~req.body.base.isFixed
    /\ Has(req.body.base, "groupId") /\ req.body.base.groupId = "mine"
    /\ Len(resp.data) >= 2
    /\ resp.data[2].isFixed
    /\ resp.data[2].groupId = GeneratedGroupId
    /\ resp.data[2].categoryId = NULL

\* C8: the dates of the rows one recurring request returns are strictly
\* increasing in iteration order.
C8_DatesStrictlyIncreasing ==
    (req.op = "createRecurring" /\ resp.success) =>
        \A k \in 1..(Len(resp.data) - 1) : resp.data[k].date < resp.data[k + 1].date

\* A 31st, clamped in February, over the end of the year, on a server ahead
\* of UTC.
C8_Witness ==
    /\ req.op = "createRecurring" /\ resp.success
    /\ tz > 0
    /\ req.body.base.date = 20241231
    /\ Len(resp.data) = MaxMonths
    /\ resp.data[3].date = 20250227

(***************************************************************************)
(* Properties of the group-scope mutator and of the store.                 *)
(***************************************************************************)
\* The fields of row t after a patch that leaves the date alone.
PatchedRow(t, updates) ==
    [f \in DOMAIN t |-> IF f # "date" /\ Has(updates, f) THEN updates[f] ELSE t[f]]

\* C3: a group update with scope=all patches every member of the group
\* whatever its date; with scope=future and fromDate=X it patches exactly the
\* members with date >= X; members with date < X and every row outside the
\* group stay as they were.
C3_GroupUpdateScope ==
    (/\ req.op = "updateGroup" /\ resp.success
     /\ (req.body.scope = "all" \/ Has(req.body, "fromDate"))) =>
        /\ Len(transactions) = Len(before)
        /\ \A k \in 1..Len(before) :
            LET t == before[k]
                affected == /\ t.groupId = req.groupId
                            /\ (req.body.scope = "all" \/ t.date >= req.body.fromDate)
            IN  transactions[k] = (IF affected THEN PatchedRow(t, req.body.updates) ELSE t)

C3_Witness ==
    /\ req.op = "updateGroup" /\ resp.success
    /\ req.body.scope = "future" /\ Has(req.body, "fromDate")
    /\ \E k \in 1..Len(before) :
        /\ before[k].groupId = req.groupId /\ before[k].date >= req.body.fromDate
        /\ transactions[k] # before[k]
    /\ \E k \in 1..Len(before) :
        /\ before[k].groupId = req.groupId /\ before[k].date < req.body.fromDate
        /\ transactions[k] = before[k]
    /\ \E k \in 1..Len(before) : before[k].groupId # req.groupId

\* The group g of the store is twelve rows dated the 15th of January to
\* December 2025.
TwelveOnThe15th(store, g) ==
    /\ Len(ByGroup(store, g)) = 12
    /\ \A k \in 1..12 : ByGroup(store, g)[k].date = DateString(2025, k, 15)

\* C4: a group delete with scope=all removes every member; with scope=future
\* and fromDate=X it removes exactly the members with date >= X; the count
\* returned is the number of rows removed; of twelve members dated the 15th
\* of each month of 2025, fromDate 2025-07-15 removes 6 and keeps 6.
C4_GroupDeleteScope ==
    (/\ req.op = "deleteGroup" /\ resp.success /\ Has(req.query, "scope")
     /\ \/ req.query.scope = "all"
        \/ req.query.scope = "future" /\ Has(req.query, "fromDate")) =>
        LET Kept(t) == ~(/\ t.groupId = req.groupId
                         /\ (req.query.scope = "all" \/ t.date >= req.query.fromDate))
        IN  /\ transactions = SelectSeq(before, Kept)
            /\ resp.data.deleted = Len(before) - Len(transactions)
            /\ (/\ TwelveOnThe15th(before, req.groupId)
                /\ req.query.scope = "future" /\ req.query.fromDate = 20250715) =>
                    /\ resp.data.deleted = 6
                    /\ Len(ByGroup(transactions, req.groupId)) = 6

C4_Witness ==
    /\ req.op = "deleteGroup" /\ resp.success
    /\ Has(req.query, "scope") /\ req.query.scope = "future"
    /\ Has(req.query, "fromDate") /\ req.query.fromDate = 20250715
    /\ TwelveOnThe15th(before, req.groupId)
    /\ resp.data.deleted = 6
    /\ Len(transactions) < Len(before)

\* C5: a group update changes no row's date, whatever the scope and the
\* patch, a patch with a date included.
C5_GroupUpdateKeepsDates ==
    req.op = "updateGroup" =>
        /\ Len(transactions) = Len(before)
        /\ \A k \in 1..Len(before) : transactions[k].date = before[k].date

C5_Witness ==
    /\ req.op = "updateGroup" /\ resp.success
    /\ Has(req.body.updates, "date")
    /\ \E k \in 1..Len(before) :
        /\ before[k].groupId = req.groupId
        /\ transactions[k] # before[k]
        /\ transactions[k].date = before[k].date
        /\ before[k].date # req.body.updates.date

\* C6: every stored transaction with isFixed = true has a non-null groupId.
C6_FixedHasGroup ==
    \A k \in 1..Len(transactions) :
        transactions[k].isFixed => transactions[k].groupId # NULL

\* The last request was a group delete, or a group update whose body passes
\* groupUpdateSchema (the body is validated before the group is looked up).
GroupRequest ==
    \/ req.op = "deleteGroup"
    \/ req.op = "updateGroup" /\ GroupUpdateSchemaOk(req.body)

NotFoundUnchanged(response, store, storeBefore) ==
    /\ response.status = 404 /\ ~response.success /\ response.code = "NOT_FOUND"
    /\ store = storeBefore

C9_UnknownGroupIsNotFound ==
    (GroupRequest /\ Len(ByGroup(before, req.groupId)) = 0) =>
        NotFoundUnchanged(resp, transactions, before)

C9_RepeatAfterDeleteAll ==
    (/\ req.op = "deleteGroup" /\ resp.success /\ DeleteScope(req.query) = "all"
     /\ GroupRequest' /\ req'.groupId = req.groupId) =>
        NotFoundUnchanged(resp', transactions', transactions)

\* C9: a group delete, or a group update with a well-formed body, addressed
\* to a groupId that no stored transaction carries answers 404 NOT_FOUND and
\* changes nothing; and the group request that follows a successful
\* scope=all delete of the same groupId answers NOT_FOUND.
C9_GroupNotFound ==
    []C9_UnknownGroupIsNotFound /\ [][C9_RepeatAfterDeleteAll]_vars

\* A group request for the first group of the run, which was generated and
\* has no rows left.
C9_Witness ==
    /\ GroupRequest /\ req.groupId = Uuid(1)
    /\ uuids > 1
    /\ Len(ByGroup(before, req.groupId)) = 0
    /\ resp.code = "NOT_FOUND"

\* The last request was a group request with scope=future and no fromDate,
\* for a group that has members.
FutureWithoutFromDate ==
    /\ \/ /\ req.op = "updateGroup" /\ GroupUpdateSchemaOk(req.body)
          /\ req.body.scope = "future" /\ ~Has(req.body, "fromDate")
       \/ /\ req.op = "deleteGroup"
          /\ Has(req.query, "scope") /\ req.query.scope = "future"
          /\ ~Has(req.query, "fromDate")
    /\ Len(ByGroup(before, req.groupId)) > 0

\* C10: for a group that has members, with scope=future and no fromDate a
\* group update modifies no row and a group delete removes none and returns
\* the count 0; the call succeeds and the store is as before.
C10_FutureWithoutFromDateIsNoOp ==
    FutureWithoutFromDate =>
        /\ resp.success /\ resp.status = 200
        /\ transactions = before
        /\ req.op = "deleteGroup" => resp.data.deleted = 0

C10_Witness ==
    /\ FutureWithoutFromDate
    /\ req.op = "deleteGroup"
    /\ Len(ByGroup(before, req.groupId)) >= 3
    /\ resp.success /\ resp.data.deleted = 0
    /\ transactions = before

\* The rows of the store before the last group update that the patch was
\* applied to: the members of the group in scope.
AffectedIds ==
    LET InScope(t) ==
            /\ t.groupId = req.groupId
            /\ \/ req.body.scope = "all"
               \/ Has(req.body, "fromDate") /\ t.date >= req.body.fromDate
    IN  Ids(SelectSeq(before, InScope))

\* C11: the data of a successful group update's response is exactly the
\* transactions the patch was applied to (for scope=future the members with
\* date >= fromDate), each as it is stored after the update.
C11_ResponseIsAffectedRows ==
    (req.op = "updateGroup" /\ resp.success) =>
        LET Affected(t) == t.id \in AffectedIds
        IN  resp.data = SelectSeq(transactions, Affected)

(***************************************************************************)
(* Properties of import, export, settings and the store as a whole.        *)
(***************************************************************************)
\* The last request posted to /migrate/import what GET /migrate/export
\* answers for the store as it was.
ImportOfOwnExport ==
    /\ req.op = "import"
    /\ req.body = ExportOf(beforeCategories, before, beforeSettings)

\* C12: the result of GET /migrate/export, posted to /migrate/import of the
\* same store, is accepted and leaves categories, transactions and settings
\* with the content that was exported.
C12_ExportImportRoundTrip ==
    ImportOfOwnExport =>
        /\ resp.success /\ resp.status = 200
        /\ categories = beforeCategories
        /\ transactions = before
        /\ settings = beforeSettings

ImportSucceeded == req.op = "import" /\ resp.success

\* The first row of a payload list that carries the id.
FirstWithId(rows, id) ==
    rows[CHOOSE j \in 1..Len(rows) :
            /\ rows[j].id = id
            /\ \A i \in 1..(j - 1) : rows[i].id # id]

\* After a successful import of payload rows into a table: the rows stored
\* before are all there, unchanged and in place; no id is stored twice; the
\* rows added are one per payload id that was not stored, each with the
\* content of the first payload row of that id; the count reported is the
\* number of rows added.
SkipsStoredIds(table, tableBefore, rows, reported) ==
    /\ Len(table) >= Len(tableBefore)
    /\ SubSeq(table, 1, Len(tableBefore)) = tableBefore
    /\ Cardinality(Ids(table)) = Len(table)
    /\ Ids(table) = Ids(tableBefore) \cup Ids(rows)
    /\ reported = Len(table) - Len(tableBefore)
    /\ \A k \in (Len(tableBefore) + 1)..Len(table) :
        LET first == FirstWithId(rows, table[k].id)
        IN  /\ Has(first, "name") => table[k].name = first.name
            /\ Has(first, "amount") => table[k].amount = first.amount

C13_ImportSkipsStoredIds ==
    ImportSucceeded =>
        /\ SkipsStoredIds(categories, beforeCategories, req.body.categories,
                          resp.data.categoriesImported)
        /\ SkipsStoredIds(transactions, before, req.body.transactions,
                          resp.data.transactionsImported)

C13_SecondImportIsNoOp ==
    (ImportSucceeded /\ req'.op = "import" /\ req'.body = req.body) =>
        /\ resp'.success
        /\ resp'.data.categoriesImported = 0
        /\ resp'.data.transactionsImported = 0
        /\ categories' = categories
        /\ transactions' = transactions

\* C13: an import skips every category and transaction whose id is stored
\* already or occurs earlier in the payload, without duplicating or
\* overwriting it; the counts reported are the numbers of rows inserted; and
\* importing the same payload again reports 0 and 0 and leaves both tables
\* as they are.
C13_ImportIdempotentOnIds ==
    []C13_ImportSkipsStoredIds /\ [][C13_SecondImportIsNoOp]_vars

\* PayloadB arrives after PayloadA: food and t1 are stored with other
\* content, nothing is inserted and the stored rows keep PayloadA's content.
C13_Witness ==
    /\ ImportSucceeded
    /\ req.body = PayloadB
    /\ resp.data.categoriesImported = 0 /\ resp.data.transactionsImported = 0
    /\ \E k \in 1..Len(transactions) :
        transactions[k].id = "t1" /\ transactions[k].amount = 30
    /\ \E k \in 1..Len(categories) :
        categories[k].id = "food" /\ categories[k].name = "Food"
    /\ transactions = before /\ categories = beforeCategories

\* The last request read or wrote the settings: a GET /settings, or a PUT
\* /settings or an import that was accepted.
SettingsAccessed ==
    \/ req.op = "getSettings"
    \/ req.op \in {"putSettings", "import"} /\ resp.success

OneSettingsRow(table) == Len(table) = 1 /\ table[1].id = 1

C14_OneRowAfterAccess == SettingsAccessed => OneSettingsRow(settings)

C14_GetCreatesDefaults ==
    (req.op = "getSettings" /\ beforeSettings = <<>>) =>
        /\ OneSettingsRow(settings)
        /\ settings[1].monthlyIncome = 8000
        /\ settings[1].currency = "$"
        /\ settings[1].showFixedCosts
        /\ settings[1].checkingBalance = 0
        /\ settings[1].creditCardBalance = 0
        /\ resp.success /\ resp.data = settings[1]

C14_RowStays == OneSettingsRow(settings) => OneSettingsRow(settings')

\* C14: after a GET /settings, an accepted PUT /settings or an accepted
\* import the settings table holds exactly one row, with id 1, and so it
\* does in every later state whatever request follows; a GET that finds no
\* row creates it with income 8000, currency '$', showFixedCosts true and
\* both balances 0, and returns it.
C14_SettingsSingleton ==
    /\ [](C14_OneRowAfterAccess /\ C14_GetCreatesDefaults)
    /\ [][C14_RowStays]_vars

\* A GET /settings that found no row, after other requests had been served.
C14_Witness ==
    /\ req.op = "getSettings"
    /\ beforeSettings = <<>>
    /\ nreq = MaxRequests
    /\ settings = <<DefaultSettings>>
    /\ resp.data.monthlyIncome = 8000

\* The last request was a POST /transactions/recurring whose base is well
\* formed and a calendar date.
RecurringWithGoodBase ==
    /\ req.op = "createRecurring"
    /\ TransactionSchemaOk(req.body.base)
    /\ IsCalendarDate(req.body.base.date)

\* C15: a recurring request whose months is not an integer in 1..24 is
\* rejected with VALIDATION_ERROR and persists no row; a request that omits
\* months generates exactly 12 transactions.
C15_MonthsValidated ==
    RecurringWithGoodBase =>
        IF ~Has(req.body, "months")
        THEN /\ resp.success
             /\ Len(resp.data) = 12
             /\ transactions = before \o resp.data
        ELSE (MonthsTenths(req.body) # 0 \/ req.body.months \notin 1..24) =>
                /\ resp.status = 400 /\ ~resp.success
                /\ resp.code = "VALIDATION_ERROR"
                /\ transactions = before

\* Months 2.5 asked of a store that holds rows.
C15_Witness ==
    /\ RecurringWithGoodBase
    /\ Has(req.body, "months") /\ MonthsTenths(req.body) = 5
    /\ resp.code = "VALIDATION_ERROR"
    /\ Len(before) > 0
    /\ transactions = before

\* The body of the last request fails the schema its route parses it with.
FailsValidation ==
    \/ req.op \in {"create", "log_transaction"} /\ ~TransactionSchemaOk(req.body)
    \/ req.op = "createRecurring" /\ ~RecurringRequestSchemaOk(req.body)
    \/ req.op = "update" /\ ~TransactionUpdateSchemaOk(req.body)
    \/ req.op = "updateGroup" /\ ~GroupUpdateSchemaOk(req.body)
    \/ req.op = "createCategory" /\ ~CategorySchemaOk(req.body)
    \/ req.op = "updateCategory" /\ ~CategoryUpdateSchemaOk(req.body)
    \/ req.op = "putSettings" /\ ~SettingsUpdateSchemaOk(req.body)
    \/ req.op = "import" /\ ~ImportSchemaOk(req.body)

\* The last request was a GET, PUT or DELETE of one transaction or category
\* by an id that was not stored.
AbsentId ==
    \/ req.op \in {"get", "update", "delete"} /\ ById(before, req.id) = {}
    \/ /\ req.op \in {"getCategory", "updateCategory", "deleteCategory"}
       /\ ById(beforeCategories, req.id) = {}

StoreUnchanged ==
    /\ transactions = before
    /\ categories = beforeCategories
    /\ settings = beforeSettings

\* C16: a request whose body fails validation is answered 400 with code
\* VALIDATION_ERROR; a GET, PUT or DELETE of one category or transaction
\* whose id is absent (the body, if any, being well formed: it is parsed
\* before the row is looked up) is answered 404 with code NOT_FOUND; in
\* both cases no row of any table is created, modified or removed.
C16_ErrorsChangeNothing ==
    /\ FailsValidation =>
        /\ resp.status = 400 /\ ~resp.success /\ resp.code = "VALIDATION_ERROR"
        /\ StoreUnchanged
    /\ (AbsentId /\ ~FailsValidation) =>
        /\ resp.status = 404 /\ ~resp.success /\ resp.code = "NOT_FOUND"
        /\ StoreUnchanged

\* A DELETE by an id that is not stored, of a store that holds transactions
\* and categories.
C16_Witness ==
    /\ req.op = "delete" /\ AbsentId
    /\ resp.code = "NOT_FOUND"
    /\ Len(before) > 0 /\ Len(beforeCategories) > 0
    /\ StoreUnchanged

\* C17: every stored transaction has amount > 0, a non-empty description, a
\* type in {expense, income, cc_payment} and a date in YYYY-MM-DD form that
\* is a calendar date.
C17_StoredTransactionsValid ==
    \A k \in 1..Len(transactions) :
        LET t == transactions[k]
        IN  /\ t.amount > 0
            /\ t.description # ""
            /\ t.type \in {"expense", "income", "cc_payment"}
            /\ DateRegex(t.date) /\ IsCalendarDate(t.date)

\* C18: no two stored transactions share an id, and no request changes the
\* id of a stored transaction: after a request that is no delete every row
\* stored before is in its place under the id it had (a single update, a
\* group update and an import of a stored id included), and after a delete
\* the rows left are rows of before.
C18_IdsUniqueAndImmutable ==
    /\ Cardinality(Ids(transactions)) = Len(transactions)
    /\ IF req.op \in {"delete", "deleteGroup"}
       THEN \A k \in 1..Len(transactions) :
                \E j \in 1..Len(before) : transactions[k] = before[j]
       ELSE /\ Len(transactions) >= Len(before)
            /\ \A k \in 1..Len(before) : transactions[k].id = before[k].id

\* A single update whose body carries an id of its own changed the row and
\* left its id alone.
C18_Witness ==
    /\ req.op = "update" /\ resp.success
    /\ Has(req.body, "id") /\ req.body.id # req.id
    /\ transactions # before
    /\ resp.data.id = req.id
    /\ Len(transactions) >= 2

(***************************************************************************)
(* Properties of listing.                                                  *)
(***************************************************************************)
\* A query parameter counts as supplied when it is present and not empty.
\* The flag asked for by isFixed is true for the string true and false for
\* any other string.
Matches(query, t) ==
    /\ Has(query, "startDate") => query.startDate <= t.date
    /\ Has(query, "endDate") => t.date <= query.endDate
    /\ (Has(query, "categoryId") /\ query.categoryId # "") =>
            t.categoryId = query.categoryId
    /\ (Has(query, "type") /\ query.type # "") => t.type = query.type
    /\ Has(query, "isFixed") => (t.isFixed <=> query.isFixed = "true")

\* C19: GET /transactions returns exactly the stored transactions that
\* satisfy every supplied predicate at once (startDate <= date and date <=
\* endDate inclusive, categoryId equal, type equal, isFixed equal to the
\* flag asked for), in stored order, and all of them when no predicate is
\* supplied; the store is left alone.
C19_ListReturnsMatches ==
    req.op = "list" =>
        LET Selected(t) == Matches(req.query, t)
        IN  /\ resp.success
            /\ resp.data = SelectSeq(transactions, Selected)
            /\ (\A f \in DOMAIN req.query :
                    f \in {"categoryId", "type"} /\ req.query[f] = "") =>
                    resp.data = transactions
            /\ transactions = before

\* All five parameters at once, on a store of which one row matches and
\* another fails the type predicate only.
C19_Witness ==
    /\ req.op = "list"
    /\ DOMAIN req.query = {"startDate", "endDate", "categoryId", "type", "isFixed"}
    /\ req.query.categoryId = "food" /\ req.query.type = "income"
    /\ req.query.isFixed = "true"
    /\ Len(resp.data) = 1
    /\ \E k \in 1..Len(transactions) :
        /\ transactions[k].categoryId = "food" /\ transactions[k].isFixed
        /\ transactions[k].date <= req.query.endDate
        /\ transactions[k].type # "income"

(***************************************************************************)
(* Properties of the loops under persistence failures.                     *)
(***************************************************************************)
\* The last request failed at step failAt of its loop.
FailedAtStep == Has(req, "failAt")

\* The members of the group of the last group request that its scope
\* selects, in stored order (the order of the loop).
ScopedMembers(store, scope) ==
    LET InScope(t) ==
            /\ t.groupId = req.groupId
            /\ \/ scope.scope = "all"
               \/ Has(scope, "fromDate") /\ t.date >= scope.fromDate
    IN  SelectSeq(store, InScope)

\* The ids of the first n rows.
FirstIds(rows, n) == {rows[j].id : j \in 1..n}

\* C20: when persistence fails at step k of a recurrence generation, of a
\* group update or of a scope=future group delete, the request is answered
\* with an error and the effects of steps 1..k-1 stay in the store: the
\* failed generation leaves exactly the first k-1 members of its group, the
\* failed update leaves the first k-1 members in scope patched and the rest
\* as they were, the failed delete has removed the first k-1 members in
\* scope and no other row.
C20_NoRollback ==
    FailedAtStep =>
        LET k == req.failAt
        IN  /\ ~resp.success /\ resp.status = 500
            /\ req.op = "createRecurring" =>
                /\ Len(transactions) = Len(before) + k - 1
                /\ SubSeq(transactions, 1, Len(before)) = before
                /\ \A j \in 1..(k - 1) :
                    LET t == transactions[Len(before) + j]
                    IN  /\ t.groupId = transactions[Len(before) + 1].groupId
                        /\ t.groupId \notin GroupIds(before)
                        /\ t.isFixed
                        /\ t.description = req.body.base.description
                        /\ t.date = ToISODate(ProjectDate(ParseLocalDate(req.body.base.date), j - 1))
            /\ req.op = "updateGroup" =>
                LET done == FirstIds(ScopedMembers(before, req.body), k - 1)
                IN  /\ Len(transactions) = Len(before)
                    /\ \A j \in 1..Len(before) :
                        transactions[j] = IF before[j].id \in done
                                          THEN PatchedRow(before[j], req.body.updates)
                                          ELSE before[j]
            /\ req.op = "deleteGroup" =>
                LET done == FirstIds(ScopedMembers(before, req.query), k - 1)
                    Kept(t) == t.id \notin done
                IN  transactions = SelectSeq(before, Kept)

\* A generation of three that failed at its third insert, on a store that
\* held rows: two members of the new group are stored.
C20_Witness ==
    /\ FailedAtStep /\ req.op = "createRecurring"
    /\ req.failAt = 3
    /\ Len(before) > 0
    /\ Len(transactions) = Len(before) + 2
    /\ transactions[Len(transactions)].groupId \notin GroupIds(before)

(***************************************************************************)
(* The response envelope.                                                  *)
(***************************************************************************)
\* The error codes of the taxonomy.
ErrorCodes == {"VALIDATION_ERROR", "NOT_FOUND", "UNKNOWN_ERROR"}

\* C21: every outcome of every server operation is delivered in the
\* envelope {success, data?, error?}: success = true with data, or
\* success = false with error.code one of VALIDATION_ERROR, NOT_FOUND,
\* UNKNOWN_ERROR, also when a store operation throws inside a handler.
\* (Violated: the bootstrap registers no error handler and the handlers have
\* no try/catch, so a throwing statement is answered by Fastify's default
\* handler with {statusCode, error, message}.)
C21_EveryOutcomeInEnvelope ==
    nreq > 0 =>
        /\ resp.envelope
        /\ resp.success \/ resp.code \in ErrorCodes

(***************************************************************************)
(* The generator under the server's UTC offset.                            *)
(***************************************************************************)
\* The local calendar date of a Date, as a date string.
LocalDateString(date) == DateString(date.y, date.m + 1, date.d)

\* C22: for every server-local UTC offset (behind, at or ahead of UTC) the
\* date persisted for each generated instance is the local calendar date
\* (target year, target month, clamped day) the generator computed, and the
\* first instance is stored with exactly base.date.
\* (Violated ahead of UTC: toISOString() gives the UTC date of local
\* midnight, which is the day before.)
C22_PersistedDateIsLocalDate ==
    (ValidRecurring /\ resp.success) =>
        LET baseDate == ParseLocalDate(req.body.base.date)
            Stored(i) == transactions[Len(before) + i + 1]
        IN  /\ \A i \in 0..(Len(resp.data) - 1) :
                Stored(i).date = LocalDateString(ProjectDate(baseDate, i))
            /\ Stored(0).date = req.body.base.date

(***************************************************************************)
(* Concurrent requests.                                                    *)
(***************************************************************************)
\* The outcome of request r handled alone on the store s (its transactions
\* and settings tables): the tables after it and its response.
Alone(s, r) ==
    IF r.op = "getSettings"
    THEN LET table == EnsureSettings(s.settings)
         IN  [transactions |-> s.transactions, settings |-> table,
              resp |-> Ok(200, table[1])]
    ELSE LET groupTransactions == ByGroup(s.transactions, r.groupId)
         IN  IF GroupNotFound(groupTransactions)
             THEN [transactions |-> s.transactions, settings |-> s.settings,
                   resp |-> Err(404, "NOT_FOUND")]
             ELSE IF r.op = "updateGroup"
             THEN LET toUpdate == Ids(ToUpdate(groupTransactions, r.body))
                      Updated(t) ==
                          IF t.id \in toUpdate
                          THEN GroupUpdateRow(TransactionUpdateSchemaData(r.body.updates), t)
                          ELSE t
                      after == [j \in 1..Len(s.transactions) |-> Updated(s.transactions[j])]
                  IN  [transactions |-> after, settings |-> s.settings,
                       resp |-> Ok(200, ByGroup(after, r.groupId))]
             ELSE LET toDelete == ToDelete(groupTransactions, r.query)
                  IN  [transactions |-> Without(s.transactions, Ids(toDelete)),
                       settings |-> s.settings,
                       resp |-> Ok(200, [deleted |-> Len(toDelete)])]

\* The outcome of handling the requests of inflight named by order, one
\* after the other, from the store s: the tables at the end and the
\* response of each.
RECURSIVE InOrder(_, _, _)
InOrder(s, order, resps) ==
    IF order = <<>>
    THEN [transactions |-> s.transactions, settings |-> s.settings, resps |-> resps]
    ELSE LET o == Alone(s, inflight[Head(order)].request)
         IN  InOrder([transactions |-> o.transactions, settings |-> o.settings],
                     Tail(order), [resps EXCEPT ![Head(order)] = o.resp])

\* The requests that have been answered, and the sequential orders of them.
Answered == {k \in 1..Len(inflight) : inflight[k].pc = "done"}

\* The requests whose handler has started and not finished.
PartWay == {k \in 1..Len(inflight) : inflight[k].pc = "running"}

Orders(D) ==
    {p \in [1..Cardinality(D) -> D] :
        \A a, b \in 1..Cardinality(D) : a # b => p[a] # p[b]}

SameResponse(a, b) ==
    /\ a.status = b.status
    /\ a.success = b.success
    /\ a.success => a.data = b.data

\* The store and the responses are those of the answered requests handled
\* one after the other in the order p, from the store they arrived at.
OutcomeOfOrder(p) ==
    LET out == InOrder([transactions |-> ConcGroup, settings |-> <<>>], p,
                       [k \in 1..Len(inflight) |-> Pending])
    IN  /\ transactions = out.transactions
        /\ settings = out.settings
        /\ \A k \in Answered : SameResponse(inflight[k].resp, out.resps[k])

\* C23: each handler performs all of its store reads and writes without
\* yielding.  At most one handler is part-way through its statements
\* (so a group update never selects a group that a scope=future delete has
\* half removed); the settings row is never inserted twice (the table never
\* holds two rows and no insert hits the primary key); and whenever no
\* handler is running, the tables and the responses of the requests
\* answered so far are those of handling these requests one after the other
\* in some order.
C23_HandlersAreAtomic ==
    /\ Cardinality(PartWay) <= 1
    /\ Len(settings) <= 1
    /\ \A k \in Answered : inflight[k].resp.status # 500
    /\ PartWay = {} => \E p \in Orders(Answered) : OutcomeOfOrder(p)

\* Three requests that arrived together have been answered: the two group
\* updates, which patch the same rows with different amounts, and a first
\* GET /settings, which inserted the defaults.
C23_Witness ==
    /\ Len(inflight) = 3 /\ Answered = {1, 2, 3}
    /\ \E a, b, c \in Answered :
        /\ inflight[a].request.op = "updateGroup" /\ inflight[a].request.body.scope = "all"
        /\ inflight[b].request.op = "updateGroup" /\ inflight[b].request.body.scope = "future"
        /\ inflight[c].request.op = "getSettings" /\ inflight[c].resp.success
    /\ settings = <<DefaultSettings>>
    /\ transactions[1].amount = 50
    /\ transactions[3].amount \in {50, 60}

(***************************************************************************)
(* The client's transaction mutations.                                     *)
(***************************************************************************)
\* The client's last mutation call has been sent and answered: req and resp
\* are its request and response, before is the store it was sent to.
CallAnswered == nreq > 0 /\ call.seq = nreq

\* The rows of store other than the one with the given id.
Others(store, id) ==
    LET Other(t) == t.id # id
    IN  SelectSeq(store, Other)

\* C24: the client's update and delete mutations call the group endpoint if
\* and only if the recurrence choice is 'all' or 'future' and the
\* transaction has a groupId, with that groupId, scope=all for 'all' and
\* scope=future for 'future' with fromDate the stored date of the edited or
\* deleted instance; in every other case ('one', no choice, no groupId) the
\* request goes to the single-transaction endpoint with the given id and no
\* other row is updated or deleted.
C24_ClientRoutesByRecurrence ==
    CallAnswered =>
        LET found == ById(before, call.id)
            tx == before[CHOOSE k \in found : TRUE]
            grouped == /\ call.recurrence \in {"all", "future"}
                       /\ found # {}
                       /\ tx.groupId # NULL
            groupOp == IF call.kind = "update" THEN "updateGroup" ELSE "deleteGroup"
            singleOp == IF call.kind = "update" THEN "update" ELSE "delete"
            sent == IF call.kind = "update" THEN req.body ELSE req.query
        IN  IF grouped
            THEN /\ req.op = groupOp
                 /\ req.groupId = tx.groupId
                 /\ sent.scope = call.recurrence
                 /\ call.recurrence = "future" =>
                        (Has(sent, "fromDate") /\ sent.fromDate = tx.date)
            ELSE /\ req.op = singleOp
                 /\ req.id = call.id
                 /\ Others(transactions, call.id) = Others(before, call.id)

\* 'This and future' was chosen when deleting the second of three
\* instances: two rows of the group are gone, the first and the one-off row
\* are kept.
C24_Witness ==
    /\ CallAnswered
    /\ call.kind = "delete" /\ call.recurrence = "future"
    /\ req.op = "deleteGroup" /\ resp.success /\ resp.data.deleted = 2
    /\ Len(before) = 4 /\ Len(transactions) = 2
    /\ transactions[1].groupId = NULL
    /\ transactions[2].groupId # NULL

(***************************************************************************)
(* The scope parameter of the group delete.                                *)
(***************************************************************************)
\* C25: DELETE /transactions/group/:groupId with no scope parameter behaves
\* as scope=all and removes every member of the group, even when a fromDate
\* is supplied; any scope value other than 'all' is treated as 'future':
\* the members with date >= fromDate are removed, and nothing is removed
\* when fromDate is absent.  The response counts the rows removed.
C25_DeleteScopeDefaults ==
    (req.op = "deleteGroup" /\ resp.success) =>
        LET Member(t) == t.groupId = req.groupId
            Future(t) == Member(t) /\ t.date >= req.query.fromDate
            Kept(t) ==
                IF ~Has(req.query, "scope") \/ req.query.scope = "all" THEN ~Member(t)
                ELSE IF Has(req.query, "fromDate") THEN ~Future(t)
                ELSE TRUE
        IN  /\ transactions = SelectSeq(before, Kept)
            /\ resp.data.deleted = Len(before) - Len(transactions)

\* A delete without scope and with a fromDate that lies after the group's
\* first member has removed the whole group of three.
C25_Witness ==
    /\ req.op = "deleteGroup" /\ resp.success
    /\ ~Has(req.query, "scope") /\ Has(req.query, "fromDate")
    /\ resp.data.deleted = 3
    /\ \E k \in 1..Len(before) :
        before[k].groupId = req.groupId /\ before[k].date < req.query.fromDate
    /\ ByGroup(transactions, req.groupId) = <<>>

(***************************************************************************)
(* The optimistic settings update.                                         *)
(***************************************************************************)
\* Every settings mutation of the run has failed.
AllFailed ==
    /\ mutations # <<>>
    /\ \A k \in 1..Len(mutations) : mutations[k].pc = "failed"

\* C26: a failed settings mutation rolls the cache back to the value cached
\* immediately before its optimistic write, and consequently, under every
\* interleaving of overlapping mutations, once all in-flight mutations have
\* failed the cache contains no field value contributed by a failed
\* mutation: a cached field that has the value a failed mutation wrote has
\* it because the stored settings have it.
\* (Violated: the snapshot of a later mutation holds the optimistic value
\* of an earlier one, and the later rollback puts it back.)
C26_FailedMutationsLeaveNoValue ==
    (AllFailed /\ cache.data # <<>>) =>
        \A k \in 1..Len(mutations) :
            \A f \in DOMAIN mutations[k].data :
                cache.data[1][f] = mutations[k].data[f] =>
                    settings[1][f] = mutations[k].data[f]

(***************************************************************************)
(* The voice agent's session cleanup.                                      *)
(***************************************************************************)
\* No startSession is in progress.
NoStartInProgress ==
    \A r \in 1..Len(agent.runs) : agent.runs[r].pc = "finished"

\* C27: once stopSession has run and any startSession still in progress has
\* finished, no microphone stream, audio processor, audio context or live
\* session is still held: all resource refs are null, under every
\* interleaving of startSession's asynchronous steps with stopSession.
\* (Violated: a startSession that resumes after stopSession stores the
\* stream and the session that stopSession could not release.)
C27_StoppedSessionHoldsNothing ==
    (agent.stopped /\ NoStartInProgress) => agent.refs = NoRefs

(***************************************************************************)
(* The settings modal's save.                                              *)
(***************************************************************************)
\* The calls of one kind that the save made.
CallsOf(kind) ==
    LET OfKind(c) == c.kind = kind
    IN  SelectSeq(modal.calls, OfKind)

\* The categories shown in the modal that were added in it.
ShownAdded ==
    LET Added(cat) == ById(modal.categories, cat.id) = {}
    IN  SelectSeq(modal.localCategories, Added)

\* C28: on save, every category added in the modal and still present is
\* created with the name, budget, period and colour the modal shows for it
\* at that moment (and nothing else is created, so a category added and
\* then removed causes no create); every delete call names a category of
\* the original list that was removed in the modal, so an added and
\* removed category causes no delete; an existing category is updated
\* exactly when it is still shown and one of its four fields differs from
\* the original, and deleted exactly when it was removed.
\* (Violated: edits of an added category change localCategories only, and
\* the create calls are built from pendingNewCategories.)
C28_SaveSendsWhatTheModalShows ==
    modal.saved =>
        /\ CallsOf("create") =
               [k \in 1..Len(ShownAdded) |->
                   [kind |-> "create", id |-> NULL, data |-> CategoryData(ShownAdded[k])]]
        /\ \A k \in 1..Len(modal.categories) :
               LET original == modal.categories[k]
                   shown == ById(modal.localCategories, original.id)
               IN  /\ (\E c \in 1..Len(modal.calls) :
                           modal.calls[c].kind = "delete" /\ modal.calls[c].id = original.id)
                       <=> shown = {}
                   /\ (\E c \in 1..Len(modal.calls) :
                           modal.calls[c].kind = "update" /\ modal.calls[c].id = original.id)
                       <=> \E j \in shown :
                               CategoryData(modal.localCategories[j]) # CategoryData(original)
        /\ \A c \in 1..Len(modal.calls) :
               modal.calls[c].kind \in {"delete", "update"} =>
                   ById(modal.categories, modal.calls[c].id) # {}

(***************************************************************************)
(* The voice agent's tool calls.                                           *)
(***************************************************************************)
\* The indices, in order, of the calls of handler h that have a name and
\* whose handling is over (the loop is past them).
NamedDone(h) ==
    LET Named(k) == Has(h.calls[k], "name") /\ h.calls[k].name # ""
    IN  SelectSeq([k \in 1..(h.i - 1) |-> k], Named)

\* C29: for each server message, the tool responses sent are, in order,
\* one per function call that has a name and whose handler finished, each
\* carrying that call's id and name (so a call in progress or not yet
\* reached has no response, a finished one has exactly one, a call without
\* a name has none); the response of an unknown tool name is 'Unknown
\* tool: <name>', and the response of a call whose handler threw is
\* 'Error: ...', and no other response is.
C29_EveryNamedCallAnsweredInOrder ==
    \A m \in 1..Len(tools) :
        LET h == tools[m]
            done == NamedDone(h)
        IN  /\ h.i \in 1..(Len(h.calls) + 1)
            /\ Len(h.sent) = Len(done)
            /\ \A k \in 1..Len(done) :
                   LET fc == h.calls[done[k]]
                       r == h.sent[k]
                       threw == \E e \in 1..Len(h.errors) : h.errors[e] = done[k]
                   IN  /\ r.id = fc.id
                       /\ r.name = fc.name
                       /\ fc.name \notin ToolNames =>
                              r.response.text = "Unknown tool" /\ r.response.data = fc.name
                       /\ threw <=> r.response.text = "Error"

\* Both messages were handled to the end while their handlers overlapped:
\* the first answered its five named calls (one after a failed request,
\* one of an unknown tool, none for the call without a name) and the
\* second answered a call made without arguments with an error.
C29_Witness ==
    /\ Len(tools) = 2
    /\ \A m \in 1..2 : tools[m].i = Len(tools[m].calls) + 1
    /\ \E m \in 1..2 :
           /\ tools[m].calls[1].id = "c1"
           /\ Len(tools[m].sent) = 5
           /\ Len(tools[m].errors) = 1
           /\ tools[m].sent[2].response.text = "Unknown tool"
    /\ \E m \in 1..2 :
           /\ tools[m].calls[1].id = "c7"
           /\ tools[m].sent[1].response.text = "Error"
           /\ tools[m].sent[1].id = "c7"
    /\ nreq = MaxRequests

(***************************************************************************)
(* The dashboard's statistics.                                             *)
(***************************************************************************)
\* C30: whatever the transaction list and the income, 'Monthly Remaining'
\* is the same number with showFixedCosts on and off: all the values shown
\* while the toggle is switched are one value.
\* (Violated: the two settings add the same amounts in different orders,
\* and a sum of doubles is rounded at every step.)
C30_RemainingSameUnderToggle == Cardinality(stats.shown) <= 1

====
